---- MODULE Spec2Model ----
(***************************************************************************)
(* A model of the SmartThings Find integration                             *)
(* (custom_components/smartthings_find): the CSRF token manager, the       *)
(* device catalog fetch, the polling coordinator and the per-device        *)
(* location resolver with its location-selection loop.                     *)
(*                                                                         *)
(* Encoding of Python/JSON values:                                         *)
(*   - a key that is absent from a dict, and Python's None, are None (-1); *)
(*   - a string that float()/strptime cannot parse is Bad (-2);            *)
(*   - a well-formed "%Y%m%d%H%M%S" date string is the positive integer    *)
(*     that orders it (strptime is monotone on well-formed strings);       *)
(*   - coordinates and uncertainties are positive integers;                *)
(*   - gps_accuracy is held in tenths (round(x, 1) * 10);                  *)
(*   - used_op is the position of the operation in the list (0 for None).  *)
(***************************************************************************)
EXTENDS Integers, Sequences, FiniteSets, TLC

VARIABLES
    csrf,              \* hass.data[DOMAIN][entry_id]["_csrf"] (None before the first fetch)
    active_smarttags,  \* hass.data[DOMAIN][entry_id][CONF_ACTIVE_MODE_SMARTTAGS]
    active_others,     \* hass.data[DOMAIN][entry_id][CONF_ACTIVE_MODE_OTHERS]
    devices,           \* SmartThingsFindCoordinator.devices
    pc,                \* position of the setup / coordinator task
    idx,               \* position of the for-loop of _async_update_data (1-based)
    tags,              \* the local dict tags of _async_update_data
    data,              \* coordinator.data: the mapping returned by the last finished cycle
    raised,            \* the exception that left the task's last step ("none" if none)
    registered,        \* async_setup_entry stored the coordinator and forwarded the platforms
    gdl,               \* the running get_device_location call: [pc, dev, csrf_token]
    response,          \* the last response handed to the task
    ret,               \* outcome of the last finished get_device_location call
    log,               \* requests the setup / coordinator task issued in its current step
    btn,               \* the running RingButton.async_press: [pc, csrf_token, response, exc]
    blog,              \* requests issued by the current / last button press
    flow,              \* the SmartThingsFindConfigFlow object and the step the host is at
    st1,               \* the do_login_stage_one call: [pc, result]
    st2,               \* the do_login_stage_two call: its position and locals
    now,               \* datetime.now(), in seconds
    cookies,           \* session.cookie_jar: the JSESSIONID cookie of the service domain
    llog,              \* requests issued by the login handshake
    options,           \* entry.options[CONF_UPDATE_INTERVAL] (None while unset)
    submitted,         \* the interval the user last typed into the options form
    update_interval,   \* the coordinator's update_interval, in seconds (None before it is built)
    battery_state      \* the state DeviceBatterySensor last handed to the host

vars == <<csrf, active_smarttags, active_others, devices, pc, idx, tags, data,
          raised, registered, gdl, response, ret, log, btn, blog,
          flow, st1, st2, now, cookies, llog,
          options, submitted, update_interval, battery_state>>

----------------------------------------------------------------------------
(* Bounds of the model *)

MaxOps == 2          \* longest operation list of a set-last-select body
MaxDate == 2         \* number of distinct well-formed gpsUtcDt values
NumDevices == 2      \* longest device list of the account
MaxToken == 2        \* number of distinct CSRF token values the provider hands out
MaxInterval == 31    \* largest interval typed into the options form

(* const.py is not part of the sources: the default interval is taken from
   the floor that the description of the persisted state gives *)
CONF_UPDATE_INTERVAL_DEFAULT == 30

(* Python values *)

None == -1
Bad == -2
TypeError == -3      \* marks an exception that calc_gps_accuracy lets through
EmptyString == 0     \* a header that is present and empty

NoLoc == <<>>        \* res['used_loc'] = None
NoOutcome == [kind |-> "running"]

----------------------------------------------------------------------------
(* utils.py: pure helpers *)

\* round(x ** 0.5, 1) in tenths: the integer r with r - 1/2 <= 10*sqrt(s) < r + 1/2
RoundSqrtTenths(s) ==
    CHOOSE r \in 0..(10 * s + 1) :
        /\ (2 * r - 1) * (2 * r - 1) <= 400 * s
        /\ 400 * s < (2 * r + 1) * (2 * r + 1)

\* float(hu) is evaluated first; float(None) raises TypeError, which the
\* except ValueError clause does not catch; float("abc") raises ValueError.
calc_gps_accuracy(hu, vu) ==
    IF hu = None THEN TypeError
    ELSE IF hu = Bad THEN None
    ELSE IF vu = None THEN TypeError
    ELSE IF vu = Bad THEN None
    ELSE RoundSqrtTenths(hu * hu + vu * vu)

\* datetime.strptime raises ValueError on a malformed string
parse_stf_date(datestr) == IF datestr = Bad THEN Bad ELSE datestr

\* "used_loc['gps_date'] and used_loc['gps_date'] >= utcDate"
OlderThanPrevious(gps_date, utcDate) == gps_date /= None /\ gps_date >= utcDate

LocationTypes == {"LOCATION", "LASTLOC", "OFFLINE_LOC"}

EmptyLoc == [latitude |-> None, longitude |-> None,
             gps_accuracy |-> None, gps_date |-> None]

\* the state of the selection loop; exc: an exception left the loop
InitAcc == [used_loc |-> EmptyLoc, used_op |-> 0, location_found |-> FALSE,
            exc |-> FALSE]

Raise(acc) == [acc EXCEPT !.exc = TRUE]

\* the branch "if 'latitude' in op" (utils.py 373-408)
plain_branch(acc, op, i) ==
    IF op.gpsUtcDt = None THEN acc                               \* continue
    ELSE LET utcDate == parse_stf_date(op.gpsUtcDt) IN
    IF utcDate = Bad THEN Raise(acc)
    ELSE IF OlderThanPrevious(acc.used_loc.gps_date, utcDate) THEN acc
    ELSE IF op.latitude = Bad THEN Raise(acc)
    ELSE IF op.longitude = Bad
         THEN Raise([acc EXCEPT !.used_loc.latitude = op.latitude])
    ELSE LET accuracy == calc_gps_accuracy(op.horizontalUncertainty,
                                           op.verticalUncertainty)
             lon == IF op.longitude /= None THEN op.longitude
                    ELSE acc.used_loc.longitude
         IN IF accuracy = TypeError THEN Raise(acc)
            ELSE [used_loc |-> [latitude |-> op.latitude, longitude |-> lon,
                                gps_accuracy |-> accuracy, gps_date |-> utcDate],
                  used_op |-> i,
                  location_found |-> TRUE,   \* locFound is true: 'latitude' in op
                  exc |-> FALSE]

is_encrypted_never(loc) == FALSE

\* "'encrypted' in loc and loc['encrypted']" (utils.py 412)
is_encrypted(loc) == loc.encrypted

\* the branch "elif 'encLocation' in op" (utils.py 410-447)
nested_branch(acc, op, i) ==
    LET loc == op.encLocation IN
    IF is_encrypted(loc) THEN acc
    ELSE IF loc.gpsUtcDt = None THEN acc
    ELSE LET utcDate == parse_stf_date(loc.gpsUtcDt) IN
    IF utcDate = Bad THEN Raise(acc)
    ELSE IF OlderThanPrevious(acc.used_loc.gps_date, utcDate) THEN acc
    ELSE IF loc.latitude = Bad \/ loc.longitude = Bad THEN Raise(acc)
    ELSE LET accuracy == calc_gps_accuracy(loc.horizontalUncertainty,
                                           loc.verticalUncertainty)
             lat == IF loc.latitude /= None THEN loc.latitude
                    ELSE acc.used_loc.latitude
             lon == IF loc.longitude /= None THEN loc.longitude
                    ELSE acc.used_loc.longitude
             \* "else: res['location_found'] = True" hangs on "if 'longitude' in loc"
             found == IF loc.longitude /= None THEN acc.location_found ELSE TRUE
         IN IF accuracy = TypeError THEN Raise(acc)
            ELSE [used_loc |-> [latitude |-> lat, longitude |-> lon,
                                gps_accuracy |-> accuracy, gps_date |-> utcDate],
                  used_op |-> i,
                  location_found |-> found,
                  exc |-> FALSE]

\* one iteration of "for op in data['operation']" (utils.py 371-447)
handle_op(acc, op, i) ==
    IF op.oprnType \notin LocationTypes THEN acc
    ELSE IF op.latitude /= None THEN plain_branch(acc, op, i)
    ELSE IF op.encLocation.present THEN nested_branch(acc, op, i)
    ELSE acc

RECURSIVE selection_loop(_, _, _)
selection_loop(ops, i, acc) ==
    IF i > Len(ops) \/ acc.exc THEN acc
    ELSE selection_loop(ops, i + 1, handle_op(acc, ops[i], i))

----------------------------------------------------------------------------
(* utils.py: get_device_location, the handling of the set-last-select response *)

ReturnNone == [kind |-> "None"]                       \* "return None" (utils.py 483)
RaiseAuthFailed == [kind |-> "ConfigEntryAuthFailed"] \* utils.py 474, re-raised at 478

\* the dict res (utils.py 344-352)
Result(dev_id, update_success, location_found, used_op, used_loc, ops) ==
    [kind |-> "dict", dev_id |-> dev_id, update_success |-> update_success,
     location_found |-> location_found, used_op |-> used_op,
     used_loc |-> used_loc, ops |-> ops]

failed_update_keeps_success(dev_id) == Result(dev_id, TRUE, FALSE, 0, NoLoc, <<>>)

\* res after "res['update_success'] = False" (utils.py 344-352, 462)
failed_update(dev_id) == Result(dev_id, FALSE, FALSE, 0, NoLoc, <<>>)

has_operations_key_only(body) == body.has_operation

\* "'operation' in data and len(data['operation']) > 0" (utils.py 354)
has_operations(body) == body.has_operation /\ Len(body.operation) > 0

process_body_reports_unused_loc(dev_id, body) ==
    IF has_operations(body)
    THEN LET acc == selection_loop(body.operation, 1, InitAcc) IN
         IF acc.exc THEN ReturnNone
         ELSE Result(dev_id, TRUE, acc.location_found, acc.used_op,
                     acc.used_loc, body.operation)
    ELSE failed_update(dev_id)

\* the branch "if response.status == 200" (utils.py 343-463); an exception of
\* the selection loop is caught at 479 and the call returns None
process_body(dev_id, body) ==
    IF has_operations(body)
    THEN LET acc == selection_loop(body.operation, 1, InitAcc) IN
         IF acc.exc THEN ReturnNone
         ELSE IF acc.used_op /= 0
              THEN Result(dev_id, TRUE, acc.location_found, acc.used_op,
                          acc.used_loc, body.operation)
              ELSE Result(dev_id, TRUE, acc.location_found, 0, NoLoc,
                          body.operation)
    ELSE failed_update(dev_id)

session_invalid_status_only(status, res_text) == status = 401

\* "if res_text == 'Logout' or response.status == 401" (utils.py 473)
session_invalid(status, res_text) == res_text = "Logout" \/ status = 401

\* what get_device_location does with the set-last-select response r
\* (utils.py 339-483): r.error is a transport error (aiohttp.ClientError) and
\* r.is_json = FALSE a 200 body on which response.json() raises
handle_set_last(dev_id, r) ==
    IF r.error THEN ReturnNone
    ELSE IF r.status = 200
         THEN IF r.is_json THEN process_body(dev_id, r) ELSE ReturnNone
    ELSE IF session_invalid(r.status, r.text) THEN RaiseAuthFailed
    ELSE ReturnNone

\* "active" (utils.py 325-329)
is_active(dev, smarttags, others) ==
    \/ dev.deviceTypeCode = "TAG" /\ smarttags
    \/ dev.deviceTypeCode /= "TAG" /\ others

----------------------------------------------------------------------------
(* Inputs: the operation records and responses the provider may send *)

NoEnc == [present |-> FALSE, encrypted |-> FALSE, gpsUtcDt |-> None,
          latitude |-> None, longitude |-> None,
          horizontalUncertainty |-> None, verticalUncertainty |-> None]

\* an operation without encLocation; date is op['extra']['gpsUtcDt']
PlainOp(type, lat, lon, date, hu, vu) ==
    [oprnType |-> type, latitude |-> lat, longitude |-> lon, gpsUtcDt |-> date,
     horizontalUncertainty |-> hu, verticalUncertainty |-> vu,
     encLocation |-> NoEnc]

\* an operation without top-level latitude whose data sits in encLocation
NestedOp(type, encrypted, date, lat, lon, hu, vu) ==
    [oprnType |-> type, latitude |-> None, longitude |-> None, gpsUtcDt |-> None,
     horizontalUncertainty |-> None, verticalUncertainty |-> None,
     encLocation |-> [present |-> TRUE, encrypted |-> encrypted,
                      gpsUtcDt |-> date, latitude |-> lat, longitude |-> lon,
                      horizontalUncertainty |-> hu, verticalUncertainty |-> vu]]

Dates == 1..MaxDate

PlainOps ==
    {PlainOp("LOCATION", lat, lon, d, 3, 4) :
        lat \in {10, 20}, lon \in {None, 30}, d \in Dates \cup {None}}

\* plain operations whose uncertainties are missing or not numeric
UncertainOps ==
    {PlainOp("LOCATION", 10, 30, d, u[1], u[2]) :
        d \in Dates, u \in {<<None, 4>>, <<Bad, 4>>, <<3, None>>}}

NestedOps ==
    {NestedOp("OFFLINE_LOC", FALSE, d, lat, lon, 6, 8) :
        d \in Dates \cup {None}, lat \in {None, 11}, lon \in {None, 31}}

EncryptedOp == NestedOp("OFFLINE_LOC", TRUE, MaxDate, 11, 31, 6, 8)

OtherOps ==
    {EncryptedOp,
     NestedOp("OFFLINE_LOC", TRUE, None, None, None, None, None),
     PlainOp("LASTLOC", 20, 30, MaxDate, 3, 4),
     PlainOp("CHECK_CONNECTION", 10, 30, MaxDate, 3, 4),
     PlainOp("LOCATION", 10, 30, Bad, 3, 4)}

OpPool == PlainOps \cup UncertainOps \cup NestedOps \cup OtherOps

OpLists == UNION {[1..n -> OpPool] : n \in 0..MaxOps}

\* a response: a transport error, or a status with a body
Resp(status, text, is_json, has_operation, operation) ==
    [error |-> FALSE, status |-> status, text |-> text, is_json |-> is_json,
     has_operation |-> has_operation, operation |-> operation]

TransportError ==
    [error |-> TRUE, status |-> 0, text |-> "", is_json |-> FALSE,
     has_operation |-> FALSE, operation |-> <<>>]

NoResponse == [error |-> FALSE, status |-> 0, text |-> "", is_json |-> FALSE,
               has_operation |-> FALSE, operation |-> <<>>]

FailureResponses ==
    {TransportError} \cup
    {Resp(st, txt, FALSE, FALSE, <<>>) :
        st \in {401, 500}, txt \in {"Logout", "denied"}} \cup
    {Resp(200, "<html>", FALSE, FALSE, <<>>)}

\* every set-last-select response the location resolver is checked against
SetLastResponses ==
    FailureResponses \cup
    {Resp(200, "", TRUE, FALSE, <<>>)} \cup
    {Resp(200, "", TRUE, TRUE, ops) : ops \in OpLists}

\* the responses the polling cycles are checked against
CycleResponses ==
    FailureResponses \cup
    {Resp(200, "", TRUE, FALSE, <<>>), Resp(200, "", TRUE, TRUE, <<>>),
     Resp(200, "", TRUE, TRUE, <<PlainOp("LOCATION", 10, 30, 1, 3, 4)>>),
     Resp(200, "", TRUE, TRUE, <<PlainOp("LOCATION", 10, 30, 1, None, 4)>>)}

\* a request that carries no CSRF token (chkLogin.do)
Req(url, dvceId) == [url |-> url, dvceId |-> dvceId, csrf |-> None]

\* a request whose URL ends in "?_csrf={csrf_token}"
CsrfReq(url, dvceId, csrf_token) ==
    [url |-> url, dvceId |-> dvceId, csrf |-> csrf_token]

\* a chkLogin.do response: csrf_header is response.headers.get("_csrf")
CsrfResp(status, csrf_header) ==
    [error |-> FALSE, status |-> status, csrf_header |-> csrf_header]

CsrfResponses ==
    {[error |-> TRUE, status |-> 0, csrf_header |-> None]} \cup
    {CsrfResp(st, h) : st \in {200, 401}, h \in {None, EmptyString} \cup 1..MaxToken}

\* a getDeviceList.do response; a raw device carries the registry's disabled flag
RawDevice(id, type, disabled) ==
    [dvceID |-> id, deviceTypeCode |-> type, disabled |-> disabled]

DeviceLists ==
    UNION {{[i \in 1..n |-> RawDevice(i, t[i], i \in dis)] :
                t \in [1..n -> {"TAG", "PHONE"}], dis \in SUBSET {n}} :
           n \in 0..NumDevices}

DevicesResponses ==
    {[error |-> TRUE, status |-> 0, deviceList |-> <<>>]} \cup
    {[error |-> FALSE, status |-> st, deviceList |-> <<>>] :
        st \in {401, 404, 500}} \cup
    {[error |-> FALSE, status |-> 200, deviceList |-> l] : l \in DeviceLists}

\* an addOperation.do response (ring, location-refresh nudge): only the status is read
RingResponses ==
    {[error |-> TRUE, status |-> 0]} \cup
    {[error |-> FALSE, status |-> st] : st \in {200, 500}}

\* a response of the login handshake; value is what the step reads off it: the
\* URL its regular expression finds in the text (None: no match), the _csrf
\* token of the XHR body, the nextURL of a poll body, the JSESSIONID cookie the
\* response sets for the service domain
LoginResp(status, is_json, rtnCd, value) ==
    [error |-> FALSE, status |-> status, is_json |-> is_json, rtnCd |-> rtnCd,
     value |-> value]

LoginTransportError ==
    [error |-> TRUE, status |-> 0, is_json |-> FALSE, rtnCd |-> "", value |-> None]

NoLoginResp ==
    [error |-> FALSE, status |-> 0, is_json |-> FALSE, rtnCd |-> "", value |-> None]

LoginFailures == {LoginTransportError, LoginResp(500, FALSE, "", None)}

\* signInGate: only the status is read
PreSigninResponses == LoginFailures \cup {LoginResp(200, FALSE, "", None)}

\* signInWithQrCode: the text holds a https://signin.samsung.com/key/ URL or not
QrPageResponses ==
    LoginFailures \cup {LoginResp(200, FALSE, "", u) : u \in {None, 1}}

\* signInXhr: json_res.get('_csrf', {}).get('token')
XhrResponses ==
    LoginFailures \cup {LoginResp(200, FALSE, "", None)} \cup
    {LoginResp(200, TRUE, "", t) : t \in {None, EmptyString, 1}}

\* signInWithQrCodeProc: rtnCd and nextURL
PollResponses ==
    LoginFailures \cup {LoginResp(200, FALSE, "", None)} \cup
    {LoginResp(200, TRUE, "POLLING", u) : u \in {None, 1}} \cup
    {LoginResp(200, TRUE, "EXPIRED", None)} \cup
    {LoginResp(200, TRUE, "SUCCESS", u) : u \in {None, EmptyString, 1}}

\* the nextURL page: the text holds window.location.href = '...' or not
NextResponses ==
    LoginFailures \cup {LoginResp(200, FALSE, "", u) : u \in {None, 1}}

\* the redirect URL: the response sets the service's JSESSIONID cookie or not
RedirectResponses ==
    {LoginTransportError} \cup
    {LoginResp(st, FALSE, "", c) : st \in {200, 500}, c \in {None, 2}}

----------------------------------------------------------------------------
(* utils.py: fetch_csrf and get_devices *)

csrf_accepted_any_200(r) == r.status = 200

\* "if response.status == 200: ... if csrf_token:" (utils.py 230-232)
csrf_accepted(r) ==
    r.status = 200 /\ r.csrf_header /= None /\ r.csrf_header /= EmptyString

fetch_csrf_never_raises(stored, r) ==
    IF ~r.error /\ csrf_accepted(r) THEN [csrf |-> r.csrf_header, exc |-> "none"]
    ELSE [csrf |-> stored, exc |-> "none"]

\* fetch_csrf (utils.py 228-245): the stored token after the call and the
\* exception that leaves it; a transport error leaves session.get as ClientError
fetch_csrf(stored, r) ==
    IF r.error THEN [csrf |-> stored, exc |-> "ClientError"]
    ELSE IF csrf_accepted(r) THEN [csrf |-> r.csrf_header, exc |-> "none"]
    ELSE [csrf |-> stored, exc |-> "ConfigEntryAuthFailed"]

\* the devices get_devices keeps: "if ha_dev and ha_dev.disabled: continue"
RECURSIVE enabled_devices(_)
enabled_devices(l) ==
    IF l = <<>> THEN <<>>
    ELSE IF Head(l).disabled THEN enabled_devices(Tail(l))
    ELSE <<[dvceID |-> Head(l).dvceID, deviceTypeCode |-> Head(l).deviceTypeCode]>>
         \o enabled_devices(Tail(l))

get_devices_raises_on_non_200(r) ==
    IF r.error THEN [devices |-> <<>>, exc |-> "ClientError"]
    ELSE IF r.status /= 200
         THEN [devices |-> <<>>, exc |-> "ConfigEntryAuthFailed"]
    ELSE [devices |-> enabled_devices(r.deviceList), exc |-> "none"]

\* get_devices (utils.py 259-293)
get_devices(r) ==
    IF r.error THEN [devices |-> <<>>, exc |-> "ClientError"]
    ELSE IF r.status /= 200
         THEN IF r.status = 404
              THEN [devices |-> <<>>, exc |-> "ConfigEntryAuthFailed"]
              ELSE [devices |-> <<>>, exc |-> "none"]
    ELSE [devices |-> enabled_devices(r.deviceList), exc |-> "none"]

----------------------------------------------------------------------------
(* State *)

NoData == [kind |-> "None"]          \* coordinator.data before the first cycle
IdleCall == [pc |-> "idle", dev |-> 0, csrf_token |-> None]
IdleButton == [pc |-> "idle", dev |-> 0, csrf_token |-> None,
               response |-> NoResponse, exc |-> "none", raised |-> "none"]

\* the class attributes of SmartThingsFindConfigFlow (config_flow.py 33-44);
\* pc is the step the host calls next, or the view it shows
\* reauth_entry tells whether async_step_reauth set it; tasks_one and tasks_two
\* count the async_create_task calls of the flow; entry_data is the data handed
\* to async_create_entry or async_update_reload_and_abort
NewFlow == [pc |-> "user", task_stage_one |-> "none", task_stage_two |-> "none",
            qr_url |-> None, session |-> None, jsessionid |-> None,
            error |-> FALSE, reauth_entry |-> FALSE, entry_data |-> None,
            tasks_one |-> 0, tasks_two |-> 0]
IdleStageOne == [pc |-> "idle", res |-> NoLoginResp, result |-> None]
IdleStageTwo == [pc |-> "idle", csrf_token |-> None, end_time |-> None,
                 next_url |-> None, redirect_url |-> None, res |-> NoLoginResp,
                 result |-> None]

\* the battery sensor has not written a state yet
NoState == [written |-> FALSE, value |-> None, raised |-> "none"]

\* the options form was never submitted and no coordinator is built
NoOptions ==
    /\ options = None
    /\ submitted = None
    /\ update_interval = None
    /\ battery_state = NoState

\* the options form was never submitted; the coordinator runs
DefaultOptions ==
    /\ options = None
    /\ submitted = None
    /\ update_interval = CONF_UPDATE_INTERVAL_DEFAULT
    /\ battery_state = NoState

\* the JSESSIONID stored in the entry of the account the integration state
\* belongs to (__init__.py 39), and the one stored in another account's entry
OwnCredential == 1
OtherCredential == 2

\* no config flow is open
NoFlow ==
    /\ flow = [NewFlow EXCEPT !.pc = "none"]
    /\ st1 = IdleStageOne
    /\ st2 = IdleStageTwo
    /\ now = 0
    /\ llog = <<>>

\* no config flow is open and the shared session holds no cookie yet
NoLogin ==
    /\ NoFlow
    /\ cookies = None

\* no config flow is open and async_setup_entry has stored the account's
\* JSESSIONID in the shared session (__init__.py 41-42)
Configured ==
    /\ NoFlow
    /\ cookies = OwnCredential

\* async_setup_entry has just been called for the entry
Init ==
    /\ csrf = None
    /\ active_smarttags \in BOOLEAN
    /\ active_others \in BOOLEAN
    /\ devices = <<>>
    /\ pc = "setup"
    /\ idx = 0
    /\ tags = <<>>
    /\ data = NoData
    /\ raised = "none"
    /\ registered = FALSE
    /\ gdl = IdleCall
    /\ response = NoResponse
    /\ ret = NoOutcome
    /\ log = <<>>
    /\ btn = IdleButton
    /\ blog = <<>>
    /\ NoLogin
    /\ NoOptions

\* a polling cycle of an account with one SmartTag is about to resolve it
InitLoc ==
    /\ csrf = MaxToken
    /\ active_smarttags \in BOOLEAN
    /\ active_others = FALSE
    /\ devices = <<[dvceID |-> 1, deviceTypeCode |-> "TAG"]>>
    /\ pc = "cycle"
    /\ idx = 1
    /\ tags = <<>>
    /\ data = NoData
    /\ raised = "none"
    /\ registered = TRUE
    /\ gdl = IdleCall
    /\ response = NoResponse
    /\ ret = NoOutcome
    /\ log = <<>>
    /\ btn = IdleButton
    /\ blog = <<>>
    /\ Configured
    /\ DefaultOptions

\* a registered account with one SmartTag between two polling cycles
InitRing ==
    /\ csrf \in 1..MaxToken
    /\ active_smarttags \in BOOLEAN
    /\ active_others = FALSE
    /\ devices = <<[dvceID |-> 1, deviceTypeCode |-> "TAG"]>>
    /\ pc = "idle"
    /\ idx = 2
    /\ tags = <<>>
    /\ data = <<Result(1, FALSE, FALSE, 0, NoLoc, <<>>)>>
    /\ raised = "none"
    /\ registered = TRUE
    /\ gdl = IdleCall
    /\ response = NoResponse
    /\ ret = NoOutcome
    /\ log = <<>>
    /\ btn = IdleButton
    /\ blog = <<>>
    /\ Configured
    /\ DefaultOptions

configVars == <<active_smarttags, active_others>>
loginVars == <<flow, st1, st2, now, cookies, llog>>
cycleVars == <<pc, idx, tags, data, raised, registered>>
buttonVars == <<btn, blog>>
hostVars == <<options, submitted, update_interval, battery_state>>

----------------------------------------------------------------------------
(* __init__.py: async_setup_entry *)

\* async_setup_entry up to the request of fetch_csrf (__init__.py 36-54)
SetupEntry ==
    /\ pc = "setup"
    /\ pc' = "fetch_csrf"
    /\ cookies' = OwnCredential                   \* cookie_jar.update_cookies
    /\ log' = <<Req("chkLogin", 0)>>
    /\ UNCHANGED <<csrf, configVars, devices, idx, tags, data, raised, registered,
                   gdl, response, ret, buttonVars>>
    /\ UNCHANGED <<flow, st1, st2, now, llog, hostVars>>

\* fetch_csrf returns or raises; on return get_devices posts its request
\* (__init__.py 54-57)
SetupCsrfResponse(r) ==
    /\ pc = "fetch_csrf"
    /\ response' = r
    /\ LET out == fetch_csrf(csrf, r) IN
        /\ csrf' = out.csrf
        /\ IF out.exc = "none"
           THEN /\ pc' = "get_devices"
                /\ log' = Append(log, CsrfReq("getDeviceList", 0, out.csrf))
                /\ UNCHANGED raised
           ELSE /\ pc' = "setup_failed"
                /\ raised' = out.exc
                /\ UNCHANGED log
    /\ UNCHANGED <<configVars, devices, idx, tags, data, registered, gdl, ret,
                   buttonVars>>
    /\ UNCHANGED <<loginVars, hostVars>>

\* "entry.options.get(CONF_UPDATE_INTERVAL, CONF_UPDATE_INTERVAL_DEFAULT)"
\* (__init__.py 62), handed to the coordinator (__init__.py 63, 100-105)
coordinator_interval(entry_options) ==
    IF entry_options = None THEN CONF_UPDATE_INTERVAL_DEFAULT ELSE entry_options

\* get_devices returns or raises; on return the coordinator is built and the
\* first refresh begins (__init__.py 57-68)
SetupDevicesResponse(r) ==
    /\ pc = "get_devices"
    /\ response' = r
    /\ LET out == get_devices(r) IN
        IF out.exc = "none"
        THEN /\ devices' = out.devices
             /\ pc' = "cycle"
             /\ idx' = 1
             /\ tags' = <<>>
             /\ log' = <<>>
             /\ update_interval' = coordinator_interval(options)
             /\ UNCHANGED raised
        ELSE /\ pc' = "setup_failed"
             /\ raised' = out.exc
             /\ UNCHANGED <<devices, idx, tags, log, update_interval>>
    /\ UNCHANGED <<csrf, configVars, data, registered, gdl, ret, buttonVars>>
    /\ UNCHANGED <<loginVars, options, submitted, battery_state>>

----------------------------------------------------------------------------
(* utils.py: get_device_location, one action per suspension point *)

\* get_device_location up to its first request (utils.py 308-339)
GdlEnter ==
    /\ pc = "cycle"
    /\ gdl.pc = "idle"
    /\ idx <= Len(devices)
    /\ LET dev == devices[idx] IN
        IF is_active(dev, active_smarttags, active_others)
        THEN /\ gdl' = [pc |-> "nudge", dev |-> idx, csrf_token |-> csrf]
             /\ log' = Append(log, CsrfReq("addOperation", dev.dvceID, csrf))
        ELSE /\ gdl' = [pc |-> "set_last", dev |-> idx, csrf_token |-> csrf]
             /\ log' = Append(log, CsrfReq("setLastSelect", dev.dvceID, csrf))
    /\ ret' = NoOutcome
    /\ UNCHANGED <<csrf, configVars, devices, cycleVars, response, buttonVars>>
    /\ UNCHANGED <<loginVars, hostVars>>

NudgeResponse_rereads_token(r) ==
    /\ gdl.pc = "nudge"
    /\ response' = r
    /\ IF r.error
       THEN /\ gdl' = [gdl EXCEPT !.pc = "returned"]
            /\ ret' = ReturnNone
            /\ UNCHANGED log
       ELSE /\ gdl' = [gdl EXCEPT !.pc = "set_last"]
            /\ log' = Append(log, CsrfReq("setLastSelect",
                                          devices[gdl.dev].dvceID, csrf))
            /\ UNCHANGED ret
    /\ UNCHANGED <<csrf, configVars, devices, cycleVars, buttonVars>>
    /\ UNCHANGED <<loginVars, hostVars>>

\* the location-refresh request ends: its response is dropped ("pass"), a
\* transport error is caught at utils.py 479 and the call returns None; the
\* next request is built from the local csrf_token (utils.py 322, 341)
NudgeResponse(r) ==
    /\ gdl.pc = "nudge"
    /\ response' = r
    /\ IF r.error
       THEN /\ gdl' = [gdl EXCEPT !.pc = "returned"]
            /\ ret' = ReturnNone
            /\ UNCHANGED log
       ELSE /\ gdl' = [gdl EXCEPT !.pc = "set_last"]
            /\ log' = Append(log, CsrfReq("setLastSelect",
                                          devices[gdl.dev].dvceID,
                                          gdl.csrf_token))
            /\ UNCHANGED ret
    /\ UNCHANGED <<csrf, configVars, devices, cycleVars, buttonVars>>
    /\ UNCHANGED <<loginVars, hostVars>>

SetLastResponse_refreshes_csrf(r) ==
    /\ gdl.pc = "set_last"
    /\ response' = r
    /\ ret' = handle_set_last(devices[gdl.dev].dvceID, r)
    /\ gdl' = [gdl EXCEPT !.pc = "returned"]
    /\ log' = IF ret' = RaiseAuthFailed THEN Append(log, Req("chkLogin", 0))
              ELSE log
    /\ UNCHANGED <<csrf, configVars, devices, cycleVars, buttonVars>>
    /\ UNCHANGED <<loginVars, hostVars>>

\* the set-last-select request ends and the call returns or raises
SetLastResponse(r) ==
    /\ gdl.pc = "set_last"
    /\ response' = r
    /\ ret' = handle_set_last(devices[gdl.dev].dvceID, r)
    /\ gdl' = [gdl EXCEPT !.pc = "returned"]
    /\ UNCHANGED <<csrf, configVars, devices, cycleVars, log, buttonVars>>
    /\ UNCHANGED <<loginVars, hostVars>>

----------------------------------------------------------------------------
(* __init__.py: SmartThingsFindCoordinator._async_update_data *)

\* the host starts a polling cycle (__init__.py 110-112)
CycleStart ==
    /\ pc = "idle"
    /\ registered
    /\ pc' = "cycle"
    /\ idx' = 1
    /\ tags' = <<>>
    /\ raised' = "none"
    /\ log' = <<>>
    /\ UNCHANGED <<csrf, configVars, devices, data, registered, gdl, response,
                   ret, buttonVars>>
    /\ UNCHANGED <<loginVars, hostVars>>

cycle_aborts_on_none(outcome) ==
    outcome.kind \in {"ConfigEntryAuthFailed", "None"}

cycle_aborts_never(outcome) == FALSE

\* "except ConfigEntryAuthFailed as err: raise" (__init__.py 118-119)
cycle_aborts(outcome) == outcome.kind = "ConfigEntryAuthFailed"

\* get_device_location came back: "tags[dev_data['dvceID']] = tag_data", or the
\* ConfigEntryAuthFailed leaves the loop and is re-raised (__init__.py 114-119);
\* in the first refresh it also leaves async_setup_entry (__init__.py 68)
CycleCollect ==
    /\ pc = "cycle"
    /\ gdl.pc = "returned"
    /\ gdl' = IdleCall
    /\ ret' = NoOutcome
    /\ response' = NoResponse
    /\ IF cycle_aborts(ret)
       THEN /\ raised' = "ConfigEntryAuthFailed"
            /\ pc' = IF registered THEN "idle" ELSE "setup_failed"
            /\ tags' = <<>>
            /\ UNCHANGED idx
       ELSE /\ tags' = (devices[gdl.dev].dvceID :> ret) @@ tags
            /\ idx' = idx + 1
            /\ UNCHANGED <<pc, raised>>
    /\ UNCHANGED <<csrf, configVars, devices, data, registered, log, buttonVars>>
    /\ UNCHANGED <<loginVars, hostVars>>

\* "return tags" (__init__.py 116-117); after the first refresh
\* async_setup_entry registers the entry (__init__.py 70-80)
CycleEnd ==
    /\ pc = "cycle"
    /\ gdl.pc = "idle"
    /\ idx > Len(devices)
    /\ data' = tags
    /\ tags' = <<>>
    /\ pc' = "idle"
    /\ registered' = TRUE
    /\ UNCHANGED <<csrf, configVars, devices, idx, raised, gdl, response,
                   ret, log, buttonVars>>
    /\ UNCHANGED <<loginVars, hostVars>>

----------------------------------------------------------------------------
(* button.py: RingButton.async_press *)

press_outcome_lets_auth_failure_through(exc) ==
    IF exc = "ConfigEntryAuthFailed" THEN exc ELSE "none"

\* the exception that leaves async_press when exc is raised inside its try
\* block: "except Exception as e" logs it (button.py 62-63)
press_outcome(exc) == "none"

\* the press up to its ring request (button.py 40-54)
Press(d) ==
    /\ registered
    /\ btn.pc = "idle"
    /\ d \in 1..Len(devices)
    /\ btn' = [pc |-> "ring", dev |-> d, csrf_token |-> csrf,
               response |-> NoResponse, exc |-> "none", raised |-> "none"]
    /\ blog' = <<CsrfReq("addOperation", devices[d].dvceID, csrf)>>
    /\ UNCHANGED <<csrf, configVars, devices, cycleVars, gdl, response, ret, log>>
    /\ UNCHANGED <<loginVars, hostVars>>

\* the ring request ends (button.py 54-63): on a status other than 200
\* fetch_csrf sends its request; a transport error is caught and logged
RingResponse(r) ==
    /\ btn.pc = "ring"
    /\ IF r.error \/ r.status = 200
       THEN /\ btn' = LET exc == IF r.error THEN "ClientError" ELSE "none" IN
                        [btn EXCEPT !.pc = "idle", !.response = r, !.exc = exc,
                                    !.raised = press_outcome(exc)]
            /\ UNCHANGED blog
       ELSE /\ btn' = [btn EXCEPT !.pc = "fetch_csrf", !.response = r]
            /\ blog' = Append(blog, Req("chkLogin", 0))
    /\ UNCHANGED <<csrf, configVars, devices, cycleVars, gdl, response, ret, log>>
    /\ UNCHANGED <<loginVars, hostVars>>

\* fetch_csrf called by the press returns or raises into "except Exception"
\* (button.py 61-63)
ButtonCsrfResponse(r) ==
    /\ btn.pc = "fetch_csrf"
    /\ LET out == fetch_csrf(csrf, r) IN
        /\ csrf' = out.csrf
        /\ btn' = [btn EXCEPT !.pc = "idle", !.response = r, !.exc = out.exc,
                              !.raised = press_outcome(out.exc)]
    /\ UNCHANGED <<configVars, devices, cycleVars, gdl, response, ret, log, blog>>
    /\ UNCHANGED <<loginVars, hostVars>>

----------------------------------------------------------------------------
(* config_flow.py: SmartThingsFindOptionsFlowHandler *)

\* what the user types into the interval field: text that int() rejects, or
\* an integer on either side of the floor
IntervalInputs == {Bad} \cup (28..MaxInterval)

\* vol.Coerce(int) (config_flow.py 174): Bad marks vol.Invalid
Coerce_int(v) == IF v = Bad THEN Bad ELSE v

Clamp_keeps_value(v) == v

\* vol.Clamp(min=30) (config_flow.py 174)
Clamp(v) == IF v < 30 THEN 30 ELSE v

\* vol.All(vol.Coerce(int), vol.Clamp(min=30)) (config_flow.py 174)
validate_interval(v) ==
    IF Coerce_int(v) = Bad THEN Bad ELSE Clamp(Coerce_int(v))

\* the user submits the options form. The host applies the data_schema of the
\* form to the input: an invalid input shows the form again and the handler
\* is not called; else async_step_init stores the validated input as the
\* entry's options and schedules the reload of the entry, which runs
\* async_setup_entry anew (config_flow.py 154-189, __init__.py 36)
OptionsSubmit(v, smarttags, others) ==
    /\ pc \in {"setup_failed", "cycle", "idle"}
    /\ gdl.pc = "idle"
    /\ btn.pc = "idle"
    /\ submitted' = v
    /\ IF validate_interval(v) = Bad
       THEN UNCHANGED <<csrf, configVars, devices, cycleVars, response, log,
                        options, update_interval>>
       ELSE /\ options' = validate_interval(v)
            /\ active_smarttags' = smarttags
            /\ active_others' = others
            /\ csrf' = None
            /\ devices' = <<>>
            /\ pc' = "setup"
            /\ idx' = 0
            /\ tags' = <<>>
            /\ data' = NoData
            /\ raised' = "none"
            /\ registered' = FALSE
            /\ response' = NoResponse
            /\ log' = <<>>
            /\ update_interval' = None
    /\ UNCHANGED <<gdl, ret, buttonVars, loginVars, battery_state>>

----------------------------------------------------------------------------
(* config_flow.py: the steps of SmartThingsFindConfigFlow; utils.py:
   do_login_stage_one *)

integrationVars == <<csrf, configVars, devices, cycleVars, gdl, response, ret,
                     log, buttonVars, hostVars>>

\* do_stage_one once do_login_stage_one returned stage_one_res; the task is
\* done (config_flow.py 49-58)
do_stage_one(f, stage_one_res) ==
    IF stage_one_res /= None
    THEN [f EXCEPT !.session = 1, !.qr_url = stage_one_res,
                   !.task_stage_one = "done"]
    ELSE [f EXCEPT !.error = TRUE, !.task_stage_one = "done"]

\* do_stage_two once do_login_stage_two returned stage_two_res (config_flow.py 63-73)
do_stage_two(f, stage_two_res) ==
    IF stage_two_res /= None
    THEN [f EXCEPT !.jsessionid = stage_two_res, !.task_stage_two = "done"]
    ELSE [f EXCEPT !.error = TRUE, !.task_stage_two = "done"]

next_step_ignores_error(f) == "auth_stage_two"

\* the step async_step_user hands over to when stage one is done
\* (config_flow.py 86-91)
next_step(f) == IF f.error THEN "finish" ELSE "auth_stage_two"

task_missing_always(task) == TRUE

\* "if not self.task_stage_one", "if not self.task_stage_two"
\* (config_flow.py 78, 95): a Task object is true
task_missing(task) == task = "none"

\* async_step_user: called when the flow opens, and again while the progress
\* view is shown and when the progress task is done (config_flow.py 76-91)
StepUser ==
    /\ flow.pc \in {"user", "progress_one"}
    /\ LET create == task_missing(flow.task_stage_one)
           f == IF create
                THEN [flow EXCEPT !.task_stage_one = "running",
                                  !.tasks_one = @ + 1]
                ELSE flow
       IN /\ flow' = [f EXCEPT !.pc = IF f.task_stage_one /= "done"
                                      THEN "progress_one"
                                      ELSE next_step(f)]
          /\ st1' = IF create THEN IdleStageOne ELSE st1
    /\ UNCHANGED <<integrationVars, st2, now, cookies, llog>>

StageOneStart_keeps_cookies ==
    /\ flow.task_stage_one = "running"
    /\ st1.pc = "idle"
    /\ st1' = [st1 EXCEPT !.pc = "pre_signin"]
    /\ llog' = Append(llog, "signInGate")
    /\ UNCHANGED <<integrationVars, flow, st2, now, cookies>>

\* the stage-one task runs up to its first request (utils.py 49-59)
StageOneStart ==
    /\ flow.task_stage_one = "running"
    /\ st1.pc = "idle"
    /\ cookies' = None                            \* session.cookie_jar.clear()
    /\ st1' = [st1 EXCEPT !.pc = "pre_signin"]
    /\ llog' = Append(llog, "signInGate")
    /\ UNCHANGED <<integrationVars, flow, st2, now>>

\* the pre-signin request ends (utils.py 59-67); an exception is caught at 86
PreSigninResponse(r) ==
    /\ st1.pc = "pre_signin"
    /\ IF ~r.error /\ r.status = 200
       THEN /\ st1' = [st1 EXCEPT !.pc = "qr_page", !.res = r]
            /\ llog' = Append(llog, "signInWithQrCode")
            /\ UNCHANGED flow
       ELSE /\ st1' = [st1 EXCEPT !.pc = "returned", !.res = r, !.result = None]
            /\ flow' = do_stage_one(flow, None)
            /\ UNCHANGED llog
    /\ UNCHANGED <<integrationVars, st2, now, cookies>>

\* the QR page request ends (utils.py 67-89); on a status other than 200 the
\* log call reads the unbound name text and the exception is caught at 86
QrPageResponse(r) ==
    /\ st1.pc = "qr_page"
    /\ LET qr_url == IF ~r.error /\ r.status = 200 THEN r.value ELSE None IN
        /\ st1' = [st1 EXCEPT !.pc = "returned", !.res = r, !.result = qr_url]
        /\ flow' = do_stage_one(flow, qr_url)
    /\ UNCHANGED <<integrationVars, st2, now, cookies, llog>>

\* async_step_auth_stage_two: called after stage one, and again while the
\* progress view is shown and when the progress task is done; the progress
\* view is built from self.qr_url (config_flow.py 94-107)
StepAuthStageTwo ==
    /\ flow.pc \in {"auth_stage_two", "progress_two"}
    /\ LET create == task_missing(flow.task_stage_two)
           f == IF create
                THEN [flow EXCEPT !.task_stage_two = "running",
                                  !.tasks_two = @ + 1]
                ELSE flow
       IN /\ flow' = [f EXCEPT !.pc = IF f.task_stage_two = "done" THEN "finish"
                                      ELSE IF f.qr_url = None THEN "raised"
                                      ELSE "progress_two"]
          /\ st2' = IF create THEN IdleStageTwo ELSE st2
    /\ UNCHANGED <<integrationVars, st1, now, cookies, llog>>

finish_result_ignores_error(f) ==
    IF f.reauth_entry THEN "updated" ELSE "entry"

\* what async_step_finish returns: the error form, the update of the
\* re-auth entry or the new entry (config_flow.py 110-123)
finish_result(f) ==
    IF f.error THEN "form"
    ELSE IF f.reauth_entry THEN "updated"
    ELSE "entry"

\* async_step_finish: called after the stages, and again when the user
\* submits the error form; the data of the entry is the JSESSIONID of the
\* flow (config_flow.py 109-123)
StepFinish ==
    /\ flow.pc \in {"finish", "form"}
    /\ flow' = [flow EXCEPT !.pc = finish_result(flow),
                            !.entry_data = IF finish_result(flow) = "form"
                                           THEN @ ELSE flow.jsessionid]
    /\ UNCHANGED <<integrationVars, st1, st2, now, cookies, llog>>

----------------------------------------------------------------------------
(* utils.py: do_login_stage_two *)

Timeout == 120        \* timedelta(seconds=120)
PollInterval == 2     \* asyncio.sleep(2)

\* "return None" / "return jsessionid.value" after the response r
stage_two_returns(s, r, result) ==
    [s EXCEPT !.pc = "returned", !.res = r, !.result = result]

loop_head_ignores_deadline(s, r, t) == [s EXCEPT !.pc = "sleep", !.res = r]

\* "while datetime.now() < end_time" read at time t (utils.py 140); the loop
\* is left with next_url = None: "return None" (utils.py 159-161)
loop_head(s, r, t) ==
    IF t < s.end_time THEN [s EXCEPT !.pc = "sleep", !.res = r]
    ELSE stage_two_returns(s, r, None)

\* the stage-two task runs up to its first request (utils.py 106-113)
StageTwoStart ==
    /\ flow.task_stage_two = "running"
    /\ st2.pc = "idle"
    /\ st2' = [st2 EXCEPT !.pc = "xhr"]
    /\ llog' = Append(llog, "signInXhr")
    /\ UNCHANGED <<integrationVars, flow, st1, now, cookies>>

\* the XHR request ends (utils.py 113-140): the poll budget starts
XhrResponse(r) ==
    /\ st2.pc = "xhr"
    /\ st2' = IF ~r.error /\ r.status = 200 /\ r.is_json
                 /\ r.value /= None /\ r.value /= EmptyString
              THEN loop_head([st2 EXCEPT !.csrf_token = r.value,
                                         !.end_time = now + Timeout], r, now)
              ELSE stage_two_returns(st2, r, None)
    /\ flow' = IF st2'.pc = "returned" THEN do_stage_two(flow, st2'.result)
               ELSE flow
    /\ UNCHANGED <<integrationVars, st1, now, cookies, llog>>

\* "await asyncio.sleep(2)" ends and the poll request is posted (utils.py 142-143)
PollSleep ==
    /\ st2.pc = "sleep"
    /\ now' = now + PollInterval
    /\ st2' = [st2 EXCEPT !.pc = "poll"]
    /\ llog' = Append(llog, "signInWithQrCodeProc")
    /\ UNCHANGED <<integrationVars, flow, st1, cookies>>

poll_error_retries(s, r, t) == loop_head(s, r, t)

\* "except aiohttp.ClientError: return None" (utils.py 155-157)
poll_error(s, r, t) == stage_two_returns(s, r, None)

poll_succeeded_never(r) == FALSE

\* "if js.get('rtnCd') == "SUCCESS"" (utils.py 152)
poll_succeeded(r) == r.rtnCd = "SUCCESS"

poll_response_aborts_on_status(s, r, t) ==
    IF r.error THEN poll_error(s, r, t)
    ELSE IF r.status /= 200 THEN stage_two_returns(s, r, None)
    ELSE IF ~r.is_json THEN stage_two_returns(s, r, None)
    ELSE IF poll_succeeded(r)
         THEN IF r.value = None \/ r.value = EmptyString
              THEN stage_two_returns([s EXCEPT !.next_url = r.value], r, None)
              ELSE [s EXCEPT !.pc = "next", !.res = r, !.next_url = r.value]
    ELSE loop_head(s, r, t)

\* the poll request ends after d seconds (utils.py 143-161); response.json()
\* raising leaves through an except clause that returns None
poll_response(s, r, t) ==
    IF r.error THEN poll_error(s, r, t)
    ELSE IF r.status /= 200 THEN loop_head(s, r, t)                \* continue
    ELSE IF ~r.is_json THEN stage_two_returns(s, r, None)
    ELSE IF poll_succeeded(r)
         THEN IF r.value = None \/ r.value = EmptyString           \* break
              THEN stage_two_returns([s EXCEPT !.next_url = r.value], r, None)
              ELSE [s EXCEPT !.pc = "next", !.res = r, !.next_url = r.value]
    ELSE loop_head(s, r, t)

PollResponse(r, d) ==
    /\ st2.pc = "poll"
    /\ now' = now + d
    /\ st2' = poll_response(st2, r, now')
    /\ llog' = IF st2'.pc = "next" THEN Append(llog, "signInSuccess") ELSE llog
    /\ flow' = IF st2'.pc = "returned" THEN do_stage_two(flow, st2'.result)
               ELSE flow
    /\ UNCHANGED <<integrationVars, st1, cookies>>

\* the nextURL request ends (utils.py 166-191)
NextUrlResponse(r) ==
    /\ st2.pc = "next"
    /\ IF ~r.error /\ r.status = 200 /\ r.value /= None
       THEN /\ st2' = [st2 EXCEPT !.pc = "redirect", !.res = r,
                                  !.redirect_url = r.value]
            /\ llog' = Append(llog, "redirect")
            /\ UNCHANGED flow
       ELSE /\ st2' = stage_two_returns(st2, r, None)
            /\ flow' = do_stage_two(flow, None)
            /\ UNCHANGED llog
    /\ UNCHANGED <<integrationVars, st1, now, cookies>>

jsessionid_of_any_status(r, jar) == IF r.error THEN None ELSE jar

\* the value do_login_stage_two returns after the redirect response r, the
\* cookie jar then holding jar (utils.py 191-206)
jsessionid_of(r, jar) == IF ~r.error /\ r.status = 200 THEN jar ELSE None

\* the redirect request ends; the session keeps the cookie a response sets
RedirectResponse(r) ==
    /\ st2.pc = "redirect"
    /\ cookies' = IF ~r.error /\ r.value /= None THEN r.value ELSE cookies
    /\ st2' = stage_two_returns(st2, r, jsessionid_of(r, cookies'))
    /\ flow' = do_stage_two(flow, st2'.result)
    /\ UNCHANGED <<integrationVars, st1, now, llog>>

----------------------------------------------------------------------------
(* device_tracker.py, sensor.py: the entities' properties *)

EmptyDict == [kind |-> "empty"]     \* the default {} of dict.get

\* "self.coordinator.data.get(self.device_id, {})"
tag_data_of(coordinator_data, device_id) ==
    IF device_id \in DOMAIN coordinator_data THEN coordinator_data[device_id]
    ELSE EmptyDict

\* SmartThingsDeviceTracker.available (device_tracker.py 54-64): None and {}
\* are both false
tracker_available(coordinator_data, device_id) ==
    LET tag_data == tag_data_of(coordinator_data, device_id) IN
    IF tag_data.kind /= "dict" THEN FALSE
    ELSE IF ~tag_data.update_success THEN FALSE
    ELSE TRUE

\* SmartThingsDeviceTracker.latitude and longitude of the main tracker
\* (device_tracker.py 70-90)
tracker_latitude(tag_data) ==
    IF tag_data.location_found THEN tag_data.used_loc.latitude ELSE None

tracker_longitude(tag_data) ==
    IF tag_data.location_found THEN tag_data.used_loc.longitude ELSE None

\* DeviceBatterySensor.available (sensor.py 40-53)
sensor_available(coordinator_data, device_id) ==
    LET tag_data == tag_data_of(coordinator_data, device_id) IN
    IF tag_data.kind /= "dict" THEN FALSE
    ELSE IF ~tag_data.update_success THEN FALSE
    ELSE TRUE

----------------------------------------------------------------------------
(* utils.py: get_battery_level; sensor.py: the state of DeviceBatterySensor *)

\* the JSON value of a battery field: a string, a number or null
Str(text) == [kind |-> "str", text |-> text, n |-> 0]
Num(n) == [kind |-> "int", text |-> "", n |-> n]
JsonNull == [kind |-> "null", text |-> "", n |-> 0]

\* const.py is not part of the sources: the fixed enumeration of raw codes
\* and their percentages
BATTERY_LEVELS == [FULL |-> 100, LOW |-> 15]

\* the strings of the model that int() parses, with their values
Numerals == [text \in {"85", "7"} |-> IF text = "85" THEN 85 ELSE 7]

\* "BATTERY_LEVELS.get(batt_raw, None)" (utils.py 560)
enumerated(batt_raw) ==
    IF batt_raw.kind = "str" /\ batt_raw.text \in DOMAIN BATTERY_LEVELS
    THEN BATTERY_LEVELS[batt_raw.text]
    ELSE None

\* "return batt" after the lookup and the int() of utils.py 559-567: int()
\* raises ValueError on other text, which is caught and leaves batt None, and
\* TypeError on None, which is not caught
battery_of(batt_raw) ==
    IF enumerated(batt_raw) /= None
    THEN [value |-> enumerated(batt_raw), raised |-> "none"]
    ELSE IF batt_raw.kind = "int" THEN [value |-> batt_raw.n, raised |-> "none"]
    ELSE IF batt_raw.kind = "null" THEN [value |-> None, raised |-> "TypeError"]
    ELSE IF batt_raw.text \in DOMAIN Numerals
         THEN [value |-> Numerals[batt_raw.text], raised |-> "none"]
    ELSE [value |-> None, raised |-> "none"]

\* "op['oprnType'] == 'CHECK_CONNECTION' and 'battery' in op" (utils.py 558)
carries_battery(op) ==
    op.oprnType = "CHECK_CONNECTION" /\ "battery" \in DOMAIN op

RECURSIVE get_battery_level_first_parsable(_)
get_battery_level_first_parsable(ops) ==
    IF ops = <<>> THEN [value |-> None, raised |-> "none"]
    ELSE IF carries_battery(Head(ops)) /\ battery_of(Head(ops).battery).value /= None
         THEN battery_of(Head(ops).battery)
    ELSE get_battery_level_first_parsable(Tail(ops))

\* get_battery_level (utils.py 546-568)
RECURSIVE get_battery_level(_)
get_battery_level(ops) ==
    IF ops = <<>> THEN [value |-> None, raised |-> "none"]
    ELSE IF carries_battery(Head(ops)) THEN battery_of(Head(ops).battery)
    ELSE get_battery_level(Tail(ops))

\* an operation with a battery field
BatteryOp(type, battery) ==
    PlainOp(type, None, None, None, None, None) @@ [battery |-> battery]

\* battery fields of the model: two codes of the enumeration, a numeral,
\* other text and a number
BatteryValues == {Str("FULL"), Str("LOW"), Str("85"), Str("n/a"), Num(50)}

BatteryOps ==
    {BatteryOp("CHECK_CONNECTION", v) : v \in BatteryValues} \cup
    {BatteryOp("LOCATION", Str("FULL")),
     PlainOp("CHECK_CONNECTION", None, None, None, None, None)}

BatteryOpLists == UNION {[1..n -> BatteryOps] : n \in 0..MaxOps}

\* a registered account with one device between two polling cycles; the last
\* cycle stored the operation list of the device
InitBattery ==
    /\ csrf \in 1..MaxToken
    /\ active_smarttags = FALSE
    /\ active_others = FALSE
    /\ devices = <<[dvceID |-> 1, deviceTypeCode |-> "TAG"]>>
    /\ pc = "idle"
    /\ idx = 2
    /\ tags = <<>>
    /\ \E ops \in BatteryOpLists : data = <<Result(1, TRUE, FALSE, 0, NoLoc, ops)>>
    /\ raised = "none"
    /\ registered = TRUE
    /\ gdl = IdleCall
    /\ response = NoResponse
    /\ ret = NoOutcome
    /\ log = <<>>
    /\ btn = IdleButton
    /\ blog = <<>>
    /\ Configured
    /\ DefaultOptions

\* DeviceBatterySensor.state (sensor.py 59-62): the host reads the state of
\* the sensor of the device at position d. A None stored for the device has
\* no get()
SensorState(d) ==
    /\ registered
    /\ pc = "idle"
    /\ d \in 1..Len(devices)
    /\ LET tag_data == tag_data_of(data, devices[d].dvceID) IN
        battery_state' =
            IF tag_data.kind = "None"
            THEN [written |-> TRUE, value |-> None, raised |-> "AttributeError"]
            ELSE LET ops == IF tag_data.kind = "dict" THEN tag_data.ops ELSE <<>>
                     level == get_battery_level(ops)
                 IN [written |-> TRUE, value |-> level.value, raised |-> level.raised]
    /\ UNCHANGED <<csrf, configVars, devices, cycleVars, gdl, response, ret, log,
                   buttonVars, loginVars, options, submitted,
                   update_interval>>

----------------------------------------------------------------------------
(* Specifications *)

\* the provider answers the request the task waits for
SetupCsrf == pc = "fetch_csrf" /\ \E r \in CsrfResponses : SetupCsrfResponse(r)
SetupDevices == pc = "get_devices" /\ \E r \in DevicesResponses : SetupDevicesResponse(r)
Nudge == gdl.pc = "nudge" /\ \E r \in RingResponses : NudgeResponse(r)
SetLastInCycle == gdl.pc = "set_last" /\ \E r \in CycleResponses : SetLastResponse(r)
SetLast == gdl.pc = "set_last" /\ \E r \in SetLastResponses : SetLastResponse(r)
Ring == btn.pc = "ring" /\ \E r \in RingResponses : RingResponse(r)
ButtonCsrf == btn.pc = "fetch_csrf" /\ \E r \in CsrfResponses : ButtonCsrfResponse(r)

\* the user presses the ring button of one of the devices
PressButton == \E d \in 1..NumDevices : Press(d)

\* setup and polling cycles of one configured account
Next ==
    \/ SetupEntry
    \/ SetupCsrf
    \/ SetupDevices
    \/ CycleStart
    \/ GdlEnter
    \/ Nudge
    \/ SetLastInCycle
    \/ CycleCollect
    \/ CycleEnd

Spec == Init /\ [][Next]_vars

\* a registered account with one SmartTag: polling cycles and button presses
NextRing ==
    \/ CycleStart
    \/ GdlEnter
    \/ Nudge
    \/ SetLastInCycle
    \/ CycleCollect
    \/ CycleEnd
    \/ PressButton
    \/ Ring
    \/ ButtonCsrf

SpecRing == InitRing /\ [][NextRing]_vars

\* one call of get_device_location, against every response of SetLastResponses
NextLoc ==
    \/ GdlEnter
    \/ Nudge
    \/ SetLast

SpecLoc == InitLoc /\ [][NextLoc]_vars

\* the user submits the options form
SubmitOptions ==
    \E v \in IntervalInputs : \E smarttags, others \in BOOLEAN :
        OptionsSubmit(v, smarttags, others)

\* setups of one entry, reloaded whenever its options are submitted
NextOptions ==
    \/ SetupEntry
    \/ SetupCsrf
    \/ SetupDevices
    \/ SubmitOptions

SpecOptions == Init /\ [][NextOptions]_vars

\* the host reads the state of the battery sensor
ReadSensor == \E d \in 1..NumDevices : SensorState(d)

\* the battery sensor of one device, for every operation list of BatteryOpLists
NextBattery == ReadSensor

SpecBattery == InitBattery /\ [][NextBattery]_vars

MaxDelay == 1        \* longest time, in seconds, a poll request takes

\* a config flow has just been opened; the shared session may hold a cookie
\* of an earlier login
InitLogin ==
    /\ csrf = None
    /\ active_smarttags = FALSE
    /\ active_others = FALSE
    /\ devices = <<>>
    /\ pc = "setup"
    /\ idx = 0
    /\ tags = <<>>
    /\ data = NoData
    /\ raised = "none"
    /\ registered = FALSE
    /\ gdl = IdleCall
    /\ response = NoResponse
    /\ ret = NoOutcome
    /\ log = <<>>
    /\ btn = IdleButton
    /\ blog = <<>>
    /\ flow \in {[NewFlow EXCEPT !.reauth_entry = b] : b \in BOOLEAN}
    /\ st1 = IdleStageOne
    /\ st2 = IdleStageTwo
    /\ now = 0
    /\ cookies \in {None, 1}
    /\ llog = <<>>
    /\ NoOptions

\* the provider answers the request the handshake waits for
PreSignin == st1.pc = "pre_signin" /\ \E r \in PreSigninResponses : PreSigninResponse(r)
QrPage == st1.pc = "qr_page" /\ \E r \in QrPageResponses : QrPageResponse(r)
Xhr == st2.pc = "xhr" /\ \E r \in XhrResponses : XhrResponse(r)
Poll == st2.pc = "poll" /\ \E r \in PollResponses : \E d \in 0..MaxDelay : PollResponse(r, d)
NextUrl == st2.pc = "next" /\ \E r \in NextResponses : NextUrlResponse(r)
Redirect == st2.pc = "redirect" /\ \E r \in RedirectResponses : RedirectResponse(r)

\* one config flow, from its first step to the entry or the error form
NextLogin ==
    \/ StepUser
    \/ StageOneStart
    \/ PreSignin
    \/ QrPage
    \/ StepAuthStageTwo
    \/ StageTwoStart
    \/ Xhr
    \/ PollSleep
    \/ Poll
    \/ NextUrl
    \/ Redirect
    \/ StepFinish

SpecLogin == InitLogin /\ [][NextLogin]_vars

\* the event loop runs every task that can run, and every request ends
FairLogin == SpecLogin /\ WF_vars(NextLogin)

----------------------------------------------------------------------------
(* Claims about get_device_location, checked under SpecLoc *)

Returned == gdl.pc = "returned"

\* the call returned after a 200 response whose JSON body was read
Returned200 == Returned /\ ~response.error /\ response.status = 200 /\ response.is_json

Max(S) == CHOOSE x \in S : \A y \in S : y <= x

\* the date and the coordinates an operation offers to the selection loop,
\* read off the record itself
IsPlain(op) == op.oprnType \in LocationTypes /\ op.latitude /= None
IsNested(op) ==
    /\ op.oprnType \in LocationTypes
    /\ op.latitude = None
    /\ op.encLocation.present
    /\ ~op.encLocation.encrypted
OfferedDate(op) ==
    IF IsPlain(op) THEN op.gpsUtcDt
    ELSE IF IsNested(op) THEN op.encLocation.gpsUtcDt
    ELSE None
OfferedLat(op) ==
    IF IsPlain(op) THEN op.latitude
    ELSE IF IsNested(op) THEN op.encLocation.latitude
    ELSE None
OfferedLon(op) ==
    IF IsPlain(op) THEN op.longitude
    ELSE IF IsNested(op) THEN op.encLocation.longitude
    ELSE None
YieldsCoordinate(op) ==
    OfferedDate(op) \in Dates /\ (OfferedLat(op) /= None \/ OfferedLon(op) /= None)
YieldsBoth(op) ==
    OfferedDate(op) \in Dates /\ OfferedLat(op) /= None /\ OfferedLon(op) /= None

\* C1: whenever the call returns a used_loc, its gps_date is the maximum date
\* among the operations that yielded a coordinate (and there is such an operation)
C1_GpsDateIsMaxOfCoordinateOps ==
    (Returned200 /\ ret.kind = "dict" /\ ret.used_loc /= NoLoc) =>
        LET ops == response.operation
            withCoord == {i \in 1..Len(ops) : YieldsCoordinate(ops[i])}
        IN /\ withCoord /= {}
           /\ ret.used_loc.gps_date = Max({OfferedDate(ops[i]) : i \in withCoord})

PermutationsOf(ops) ==
    {[i \in 1..Len(ops) |-> ops[p[i]]] : p \in Permutations(1..Len(ops))}

UsedLocOf(outcome) ==
    IF outcome.kind = "dict" THEN <<"dict", outcome.used_loc>>
    ELSE <<outcome.kind, NoLoc>>

\* C2: the call's used_loc is the same for every permutation of the operation list
C2_OrderIndependent ==
    Returned200 =>
        \A perm \in PermutationsOf(response.operation) :
            UsedLocOf(handle_set_last(devices[gdl.dev].dvceID,
                                      [response EXCEPT !.operation = perm]))
                = UsedLocOf(ret)

\* C3: location_found is true iff some operation yielded both coordinates
C3_LocationFoundIffBoth ==
    (Returned200 /\ ret.kind = "dict") =>
        (ret.location_found <=>
            \E i \in 1..Len(response.operation) : YieldsBoth(response.operation[i]))

EmptyOperationList ==
    Returned200 /\ response.has_operation /\ response.operation = <<>>

\* C4 as claimed: a 200 body whose operation list is empty gives
\* update_success = true and location_found = false
C4_EmptyListIsSuccess ==
    EmptyOperationList =>
        ret.kind = "dict" /\ ret.update_success /\ ~ret.location_found

\* C4 as amended: a 200 body whose operation list is empty gives
\* update_success = false and location_found = false, like a missing list
C4_EmptyListIsFailure ==
    EmptyOperationList =>
        /\ ret.kind = "dict"
        /\ ~ret.update_success
        /\ ~ret.location_found

C4_Witness == EmptyOperationList /\ ret.kind = "dict"

MissingOperationKey == Returned200 /\ ~response.has_operation

\* C5: a 200 body without the operation key gives update_success = false,
\* location_found = false, no used_op, no used_loc and no ops, and nothing is raised
C5_MissingKeyIsFailure ==
    MissingOperationKey =>
        /\ ret.kind = "dict"
        /\ ~ret.update_success
        /\ ~ret.location_found
        /\ ret.used_op = 0
        /\ ret.used_loc = NoLoc
        /\ ret.ops = <<>>

C5_Witness == MissingOperationKey /\ ret.kind = "dict"

OnlyEncryptedOffline ==
    /\ Returned200
    /\ response.has_operation
    /\ Len(response.operation) > 0
    /\ \A i \in 1..Len(response.operation) :
          LET op == response.operation[i] IN
            /\ op.oprnType = "OFFLINE_LOC"
            /\ op.latitude = None
            /\ op.encLocation.present
            /\ op.encLocation.encrypted

\* C6: a non-empty list of encrypted OFFLINE_LOC operations gives
\* update_success = true, location_found = false, no used_op and no used_loc
C6_EncryptedOnly ==
    OnlyEncryptedOffline =>
        /\ ret.kind = "dict"
        /\ ret.update_success
        /\ ~ret.location_found
        /\ ret.used_op = 0
        /\ ret.used_loc = NoLoc

C6_Witness ==
    /\ OnlyEncryptedOffline
    /\ ret.kind = "dict"
    /\ \E i \in 1..Len(response.operation) :
          response.operation[i].encLocation.gpsUtcDt \in Dates

ReturnedNon200 == Returned /\ gdl.dev /= 0 /\ ~response.error /\ response.status /= 200
                  /\ Len(log) > 0 /\ log[Len(log)].url = "setLastSelect"

\* C9: on a non-200 set-last-select response the call raises
\* ConfigEntryAuthFailed iff the body is "Logout" or the status is 401, and
\* otherwise returns None
C9_AuthFailedIffLogoutOr401 ==
    ReturnedNon200 =>
        IF response.text = "Logout" \/ response.status = 401
        THEN ret = RaiseAuthFailed
        ELSE ret = ReturnNone

C9_Witness ==
    /\ ReturnedNon200
    /\ response.text = "Logout"
    /\ response.status = 500
    /\ ret = RaiseAuthFailed

----------------------------------------------------------------------------
(* Claims about the polling cycle, checked under Spec *)

DeviceIds == {devices[j].dvceID : j \in 1..Len(devices)}
Requested == {log[k].dvceId : k \in 1..Len(log)}

\* ConfigEntryAuthFailed left _async_update_data at device idx
AbortedCycle ==
    raised = "ConfigEntryAuthFailed" /\ idx >= 1 /\ pc \in {"idle", "setup_failed"}

\* _async_update_data returned its mapping
CompletedCycle == pc = "idle" /\ registered /\ raised = "none"

\* C7: when get_device_location raises ConfigEntryAuthFailed for device idx, the
\* cycle ends with that exception, returns no mapping (coordinator.data keeps
\* its value, tags is dropped) and requests nothing for a later device
C7_AuthFailureAbortsCycle ==
    /\ [][(pc = "cycle" /\ Returned /\ ret = RaiseAuthFailed) =>
            /\ raised' = "ConfigEntryAuthFailed"
            /\ pc' \in {"idle", "setup_failed"}
            /\ data' = data
            /\ log' = log]_vars
    /\ [](AbortedCycle =>
            /\ tags = <<>>
            /\ gdl = IdleCall
            /\ Requested \subseteq {devices[j].dvceID : j \in 1..idx})
    /\ [][AbortedCycle => (log' = log \/ pc' = "cycle")]_vars

C7_Witness ==
    /\ AbortedCycle
    /\ registered
    /\ idx = 1
    /\ Len(devices) = 2
    /\ data /= NoData
    /\ Requested = {devices[1].dvceID}

\* the first operation of the list makes the selection loop raise
RaisesOnParse(ops) ==
    /\ Len(ops) > 0
    /\ IsPlain(ops[1])
    /\ ops[1].gpsUtcDt /= None
    /\ \/ ops[1].gpsUtcDt = Bad
       \/ ops[1].horizontalUncertainty = None
       \/ ops[1].horizontalUncertainty /= Bad /\ ops[1].verticalUncertainty = None

\* the set-last-select call of the current device ended in an update failure:
\* a transport error, a non-200 answer without the Logout/401 signature, a body
\* that is no JSON or has no operation (no list, or an empty one), or a list
\* whose parsing raises
UpdateFailedCondition ==
    /\ pc = "cycle"
    /\ Returned
    /\ Len(log) > 0
    /\ log[Len(log)].url = "setLastSelect"
    /\ \/ response.error
       \/ /\ response.status /= 200
          /\ response.text /= "Logout"
          /\ response.status /= 401
       \/ /\ response.status = 200
          /\ \/ ~response.is_json
             \/ ~response.has_operation
             \/ response.operation = <<>>
             \/ RaisesOnParse(response.operation)

\* an update failure leaves the loop running: the device's outcome is stored,
\* the other entries of tags are kept, and a finished cycle has requested and
\* mapped every device
C8_CycleGoesOn ==
    /\ [][UpdateFailedCondition =>
            /\ pc' = "cycle"
            /\ raised' = raised
            /\ idx' = idx + 1
            /\ DOMAIN tags' = DOMAIN tags \cup {devices[idx].dvceID}
            /\ tags'[devices[idx].dvceID] = ret
            /\ \A k \in DOMAIN tags : tags'[k] = tags[k]]_vars
    /\ [](CompletedCycle => DOMAIN data = DeviceIds /\ Requested = DeviceIds)

\* C8 as claimed: an update failure surfaces as a result with
\* update_success = false for that device only and does not abort the cycle
C8_UpdateFailureIsResult ==
    /\ [](UpdateFailedCondition => ret.kind = "dict" /\ ~ret.update_success)
    /\ C8_CycleGoesOn

\* C8 as amended: an update failure surfaces as None, or as a result with
\* update_success = false when the body holds no operation, for that
\* device only and does not abort the cycle
C8_UpdateFailureIsPerDevice ==
    /\ [](UpdateFailedCondition =>
            IF ~response.error /\ response.status = 200 /\ response.is_json
               /\ (~response.has_operation \/ response.operation = <<>>)
            THEN ret.kind = "dict" /\ ~ret.update_success
            ELSE ret = ReturnNone)
    /\ C8_CycleGoesOn

C8_Witness ==
    /\ CompletedCycle
    /\ Len(devices) = 2
    /\ data[devices[1].dvceID] = ReturnNone
    /\ data[devices[2].dvceID].kind = "dict"
    /\ data[devices[2].dvceID].update_success

----------------------------------------------------------------------------
(* Claims about fetch_csrf, checked under SpecRing *)

ChkLoginRequests(l) == Cardinality({k \in 1..Len(l) : l[k].url = "chkLogin"})

\* C10: when the chkLogin response arrives, the token is stored iff the status
\* is 200 and the _csrf header is present and not empty; otherwise
\* ConfigEntryAuthFailed is raised and the stored token keeps its value; the
\* call has sent one request
C10_FetchCsrfStoresIffAccepted ==
    [][(btn.pc = "fetch_csrf" /\ btn'.pc /= "fetch_csrf" /\ ~btn'.response.error) =>
         LET r == btn'.response IN
           /\ IF r.status = 200 /\ r.csrf_header \notin {None, EmptyString}
              THEN csrf' = r.csrf_header /\ btn'.exc = "none"
              ELSE csrf' = csrf /\ btn'.exc = "ConfigEntryAuthFailed"
           /\ ChkLoginRequests(blog') = 1]_vars

C10_Witness ==
    /\ btn.pc = "idle"
    /\ btn.exc = "ConfigEntryAuthFailed"
    /\ btn.response.status = 200
    /\ btn.response.csrf_header = EmptyString
    /\ csrf \in 1..MaxToken
    /\ ChkLoginRequests(blog) = 1

----------------------------------------------------------------------------
(* Claims about get_devices, checked under Spec *)

\* C11: when the device-list call is answered with a status other than 200,
\* get_devices raises ConfigEntryAuthFailed iff the status is 404, and otherwise
\* returns the empty list without raising (setup goes on with no device)
C11_GetDevicesNon200 ==
    [][(pc = "get_devices" /\ pc' /= "get_devices"
          /\ ~response'.error /\ response'.status /= 200) =>
         IF response'.status = 404
         THEN /\ raised' = "ConfigEntryAuthFailed"
              /\ pc' = "setup_failed"
              /\ devices' = devices
         ELSE /\ raised' = "none"
              /\ pc' = "cycle"
              /\ devices' = <<>>]_vars

C11_Witness ==
    /\ pc = "cycle"
    /\ ~registered
    /\ ~response.error
    /\ response.status = 401
    /\ devices = <<>>
    /\ raised = "none"

----------------------------------------------------------------------------
(* Claims about the login handshake, checked under SpecLogin *)

Count(l, url) == Cardinality({k \in 1..Len(l) : l[k] = url})

IsUrl(v) == v /= None /\ v /= EmptyString

\* the response that ended the running poll request is SUCCESS with a nextURL
SuccessWithNextUrl(r) ==
    ~r.error /\ r.status = 200 /\ r.is_json /\ r.rtnCd = "SUCCESS" /\ IsUrl(r.value)

PollEnds == st2.pc = "poll" /\ st2'.pc /= "poll"

\* the handshake has left the poll loop
PastPolling == st2.pc \in {"next", "redirect", "returned"}

\* C12: a poll response SUCCESS with a nextURL ends the poll loop: the nextURL
\* is fetched at once, no poll request follows, the nextURL is fetched once,
\* and polling is never entered again
C12_SuccessEndsPolling ==
    /\ [][(PollEnds /\ SuccessWithNextUrl(st2'.res)) =>
            /\ st2'.pc = "next"
            /\ st2'.next_url = st2'.res.value
            /\ llog' = Append(llog, "signInSuccess")]_vars
    /\ [][PastPolling =>
            /\ st2'.pc \in {"next", "redirect", "returned"}
            /\ Count(llog', "signInWithQrCodeProc") = Count(llog, "signInWithQrCodeProc")
            /\ Count(llog', "signInSuccess") = Count(llog, "signInSuccess")]_vars
    /\ []((PastPolling /\ IsUrl(st2.next_url)) => Count(llog, "signInSuccess") = 1)

C12_Witness ==
    /\ st2.pc = "redirect"
    /\ Count(llog, "signInWithQrCodeProc") = 6
    /\ Count(llog, "signInSuccess") = 1
    /\ llog[Len(llog) - 1] = "signInSuccess"

\* C14: a transport error on a poll request ends stage two at once: it
\* returns None (the flow gets no JSESSIONID and shows its error) and no
\* request is issued afterwards
C14_PollTransportErrorAborts ==
    /\ [][(PollEnds /\ st2'.res.error) =>
            /\ st2'.pc = "returned"
            /\ st2'.result = None
            /\ llog' = llog
            /\ flow'.jsessionid = None
            /\ flow'.error]_vars
    /\ [][st2.pc = "returned" => llog' = llog]_vars

C14_Witness ==
    /\ st2.pc = "returned"
    /\ st2.res.error
    /\ st2.result = None
    /\ Count(llog, "signInWithQrCodeProc") = 3
    /\ llog[Len(llog)] = "signInWithQrCodeProc"
    /\ flow.pc = "form"

\* the requests of a handshake that went through every step, in order
FullHandshake ==
    /\ Len(llog) >= 6
    /\ llog[1] = "signInGate"
    /\ llog[2] = "signInWithQrCode"
    /\ llog[3] = "signInXhr"
    /\ \A k \in 4..(Len(llog) - 2) : llog[k] = "signInWithQrCodeProc"
    /\ llog[Len(llog) - 1] = "signInSuccess"
    /\ llog[Len(llog)] = "redirect"

\* the response r fails the step the handshake is at
FailsStep(step, r, jar) ==
    \/ r.error
    \/ step = "xhr" /\ (r.status /= 200 \/ ~r.is_json \/ ~IsUrl(r.value))
    \/ step = "poll" /\ r.status = 200
          /\ (~r.is_json \/ (r.rtnCd = "SUCCESS" /\ ~IsUrl(r.value)))
    \/ step = "next" /\ (r.status /= 200 \/ r.value = None)
    \/ step = "redirect" /\ (r.status /= 200 \/ jar = None)

\* C15: stage two returns a credential only after the XHR fetch gave a token,
\* a poll gave SUCCESS with a nextURL, the nextURL fetch gave the redirect URL,
\* the redirect fetch gave 200 and the jar holds the JSESSIONID, in this order;
\* a step that fails ends stage two with None and no later request
C15_CredentialOnlyAfterAllSteps ==
    /\ []((st2.pc = "returned" /\ st2.result /= None) =>
            /\ FullHandshake
            /\ IsUrl(st2.csrf_token)
            /\ IsUrl(st2.next_url)
            /\ st2.redirect_url /= None
            /\ ~st2.res.error
            /\ st2.res.status = 200
            /\ cookies /= None
            /\ st2.result = cookies)
    /\ [][(st2.pc \in {"xhr", "poll", "next", "redirect"} /\ st2'.pc /= st2.pc
             /\ FailsStep(st2.pc, st2'.res, cookies')) =>
            /\ st2'.pc = "returned"
            /\ st2'.result = None
            /\ llog' = llog]_vars
    /\ [][st2.pc = "returned" => (llog' = llog /\ st2' = st2)]_vars

C15_Witness ==
    /\ st2.pc = "returned"
    /\ st2.result = 2
    /\ flow.jsessionid = 2
    /\ flow.pc = "entry"
    /\ FullHandshake

\* the response r fails the stage-one request the handshake is at
FailsStageOne(step, r) ==
    \/ r.error
    \/ r.status /= 200
    \/ step = "qr_page" /\ r.value = None

\* C16: stage one clears the cookie jar before its first request; a request
\* that fails, or a QR page without the URL, ends it with None: the flow gets
\* no session and no qr_url, no request follows and no request is repeated
C16_StageOneFailureIsFinal ==
    /\ [][(llog = <<>> /\ llog' /= <<>>) => cookies' = None]_vars
    /\ [](st1.pc \in {"pre_signin", "qr_page"} => cookies = None)
    /\ [][(st1.pc \in {"pre_signin", "qr_page"} /\ st1'.pc /= st1.pc
             /\ FailsStageOne(st1.pc, st1'.res)) =>
            /\ st1'.pc = "returned"
            /\ st1'.result = None
            /\ llog' = llog
            /\ flow'.error
            /\ flow'.session = None
            /\ flow'.qr_url = None]_vars
    /\ [][(st1.pc = "returned" /\ st1.result = None) => llog' = llog]_vars
    /\ [](Count(llog, "signInGate") <= 1 /\ Count(llog, "signInWithQrCode") <= 1)

C16_Witness ==
    /\ st1.pc = "returned"
    /\ st1.result = None
    /\ st1.res.status = 200
    /\ llog = <<"signInGate", "signInWithQrCode">>
    /\ flow.pc = "form"

StageOneFailed == st1.pc = "returned" /\ st1.result = None

\* C17: the stage-two task exists only once the stage-one task is done
\* without error, so qr_url and session are set whenever stage two runs or its
\* progress view is shown; after a failed stage one, stage two never starts
C17_StageTwoAfterStageOne ==
    /\ []((flow.task_stage_two /= "none" \/ st2.pc /= "idle"
              \/ flow.pc \in {"auth_stage_two", "progress_two"}) =>
            /\ flow.task_stage_one = "done"
            /\ ~StageOneFailed
            /\ flow.qr_url /= None
            /\ flow.session /= None)
    /\ [](StageOneFailed =>
            /\ flow.task_stage_two = "none"
            /\ st2.pc = "idle"
            /\ Count(llog, "signInXhr") = 0)
    /\ [](flow.pc /= "raised")

C17_Witness ==
    /\ flow.pc = "progress_two"
    /\ st2.pc = "poll"
    /\ flow.qr_url = 1
    /\ flow.session = 1

----------------------------------------------------------------------------
(* Claims about the poll deadline, checked under FairLogin *)

\* stage two, once started, returns
StageTwoTerminates == (st2.pc /= "idle") ~> (st2.pc = "returned")

\* a poll iteration begins (the sleep is entered) only before the deadline
IterationsStartBeforeDeadline ==
    [][(st2.pc /= "sleep" /\ st2'.pc = "sleep") => now' < st2'.end_time]_vars

EndsInError == st2'.pc = "returned" /\ st2'.result = None /\ llog' = llog

\* C13 as claimed: stage two terminates; no poll iteration starts after the
\* deadline; when no SUCCESS response was received before the deadline, stage
\* two ends in ERROR and issues no further request
C13_DeadlineEndsStageTwo ==
    /\ StageTwoTerminates
    /\ IterationsStartBeforeDeadline
    /\ [][(PollEnds /\ now' >= st2.end_time) => EndsInError]_vars

\* C13 as amended: stage two terminates; the deadline is read at the head of
\* each iteration only, so no iteration starts at or after it and every poll
\* request belongs to an iteration begun before it; a poll response that
\* arrives at or after the deadline ends stage two in ERROR with no further
\* request unless it is SUCCESS with a nextURL, which is still accepted
C13_DeadlineReadAtLoopHead ==
    /\ StageTwoTerminates
    /\ IterationsStartBeforeDeadline
    /\ [](st2.pc = "poll" => now - PollInterval < st2.end_time)
    /\ [][(PollEnds /\ now' >= st2.end_time /\ ~SuccessWithNextUrl(st2'.res)) =>
            EndsInError]_vars
    /\ [][(PollEnds /\ now' >= st2.end_time /\ SuccessWithNextUrl(st2'.res)) =>
            st2'.pc = "next"]_vars

\* the budget ran out on a POLLING answer and the flow shows its error
C13_Witness ==
    /\ st2.pc = "returned"
    /\ st2.result = None
    /\ st2.res.rtnCd = "POLLING"
    /\ now >= st2.end_time
    /\ Count(llog, "signInWithQrCodeProc") = Timeout \div PollInterval
    /\ llog[Len(llog)] = "signInWithQrCodeProc"
    /\ flow.pc = "form"

----------------------------------------------------------------------------
(* Claims about the requests of one account, checked under SpecRing and SpecLoc *)

\* the requests of the account that wait for their response
InFlight ==
    (IF gdl.pc \in {"nudge", "set_last"} THEN 1 ELSE 0)
    + (IF pc \in {"fetch_csrf", "get_devices"} THEN 1 ELSE 0)
    + (IF btn.pc \in {"ring", "fetch_csrf"} THEN 1 ELSE 0)

\* C18: at most one request of the account is in flight, also when the ring
\* button is pressed while the polling cycle waits for a response
C18_OneRequestInFlight == InFlight <= 1

AuthFailureMet == Returned /\ ret = RaiseAuthFailed

\* C19 as claimed: when the per-device call meets an authentication failure,
\* fetch_csrf has been invoked (its chkLogin request follows the
\* set-last-select request) before the failure is raised
C19_RefreshBeforeAuthFailure ==
    AuthFailureMet =>
        \E k \in 1..Len(log) :
            /\ log[k].url = "chkLogin"
            /\ \E j \in 1..(k - 1) : log[j].url = "setLastSelect"

\* C19 as amended: when the per-device call meets an authentication failure it
\* raises at once: the set-last-select request is the last request of the
\* call, fetch_csrf is not invoked and the stored token is the one the call read
C19_NoRefreshOnAuthFailure ==
    AuthFailureMet =>
        /\ log[Len(log)].url = "setLastSelect"
        /\ \A k \in 1..Len(log) : log[k].url /= "chkLogin"
        /\ csrf = gdl.csrf_token

C19_Witness ==
    /\ AuthFailureMet
    /\ response.status = 401
    /\ Len(log) = 2
    /\ log[1].url = "addOperation"

PressDone == btn.pc = "idle" /\ btn.dev /= 0

\* C20: a press posts one ring request; a response other than 200 makes it
\* invoke fetch_csrf once, without posting the ring request again; a 200
\* response leaves the stored token unchanged; the press returns without
\* raising, also when fetch_csrf raised ConfigEntryAuthFailed
C20_PressIsOneShot ==
    /\ [][(btn.pc = "ring" /\ btn'.pc /= "ring") =>
            IF ~btn'.response.error /\ btn'.response.status /= 200
            THEN /\ btn'.pc = "fetch_csrf"
                 /\ blog' = Append(blog, Req("chkLogin", 0))
            ELSE /\ btn'.pc = "idle"
                 /\ blog' = blog
                 /\ csrf' = csrf]_vars
    /\ [][(btn.pc = "fetch_csrf" /\ btn'.pc /= "fetch_csrf") =>
            btn'.pc = "idle" /\ blog' = blog]_vars
    /\ [](btn.dev /= 0 =>
            /\ Cardinality({k \in 1..Len(blog) : blog[k].url = "addOperation"}) = 1
            /\ blog[1] = CsrfReq("addOperation", devices[btn.dev].dvceID,
                                 btn.csrf_token)
            /\ ChkLoginRequests(blog) <= 1)
    /\ [](PressDone => btn.raised = "none" /\ Len(blog) <= 2)
    /\ [][PressDone => blog' = blog \/ btn'.pc = "ring"]_vars

C20_Witness ==
    /\ PressDone
    /\ btn.exc = "ConfigEntryAuthFailed"
    /\ btn.raised = "none"
    /\ blog = <<CsrfReq("addOperation", devices[btn.dev].dvceID, btn.csrf_token),
                Req("chkLogin", 0)>>

----------------------------------------------------------------------------
(* Claims about the entities, checked under Spec *)

\* the most recent cycle produced a result with update_success = true for the device
LastCycleSucceeded(device_id) ==
    /\ CompletedCycle
    /\ device_id \in DOMAIN data
    /\ data[device_id].kind = "dict"
    /\ data[device_id].update_success

\* C21: between two cycles the tracker and the battery sensor of a device are
\* available iff the most recent cycle, aborted or not, produced a result with
\* update_success = true for the device
C21_AvailableIffLastCycleSucceeded ==
    (registered /\ pc = "idle") =>
        \A j \in 1..Len(devices) :
            LET device_id == devices[j].dvceID IN
              /\ tracker_available(data, device_id) = LastCycleSucceeded(device_id)
              /\ sensor_available(data, device_id) = LastCycleSucceeded(device_id)

----------------------------------------------------------------------------
(* Claims about the options flow, checked under SpecOptions *)

\* C22: the interval stored by the options flow is the submitted integer
\* raised to 30, and the coordinator is never built with less than 30 seconds
C22_IntervalFloor ==
    /\ options /= None => options >= 30
    /\ (options /= None /\ submitted /= Bad) =>
        options = (IF submitted < 30 THEN 30 ELSE submitted)
    /\ update_interval /= None =>
        /\ update_interval >= 30
        /\ options /= None => update_interval = options

\* an interval below the floor was submitted, and the reloaded entry built
\* its coordinator with the floor
C22_Witness ==
    /\ submitted = 28
    /\ options = 30
    /\ pc = "cycle"
    /\ update_interval = 30

----------------------------------------------------------------------------
(* Claims about get_device_location, checked under SpecLoc *)

\* a plain operation with a date and both coordinates whose horizontal or
\* vertical uncertainty is missing or not numeric
LacksUncertainty(op) ==
    /\ IsPlain(op)
    /\ op.gpsUtcDt \in Dates
    /\ op.latitude \notin {None, Bad}
    /\ op.longitude \notin {None, Bad}
    /\ \/ op.horizontalUncertainty \in {None, Bad}
       \/ op.verticalUncertainty \in {None, Bad}

\* C23: when the first operation of the list, which is always accepted, lacks
\* an uncertainty, the call still returns a result with update_success = true;
\* when it is the only operation, the result carries its coordinates and date
\* with a null accuracy
C23_MissingUncertaintyIsNullAccuracy ==
    (Returned200 /\ response.has_operation /\ Len(response.operation) > 0
        /\ LacksUncertainty(response.operation[1])) =>
        /\ ret.kind = "dict"
        /\ ret.update_success
        /\ Len(response.operation) = 1 =>
            /\ ret.used_loc /= NoLoc
            /\ ret.used_loc.gps_accuracy = None
            /\ ret.used_loc.latitude = response.operation[1].latitude
            /\ ret.used_loc.longitude = response.operation[1].longitude
            /\ ret.used_loc.gps_date = response.operation[1].gpsUtcDt

\* the positions of the requests for url in the log of the call
RequestsFor(url) == {k \in 1..Len(log) : log[k].url = url}

\* C24: every call that returned sent set-last-select exactly once, whatever
\* became of the nudge; the nudge was sent iff the active-mode toggle of the
\* device's category is on, and before set-last-select
C24_SetLastSelectExactlyOnce ==
    Returned =>
        LET active == is_active(devices[gdl.dev], active_smarttags, active_others) IN
          /\ Cardinality(RequestsFor("setLastSelect")) = 1
          /\ Cardinality(RequestsFor("addOperation")) = (IF active THEN 1 ELSE 0)
          /\ \A n \in RequestsFor("addOperation") :
                \A l \in RequestsFor("setLastSelect") : n < l

----------------------------------------------------------------------------
(* Claims about async_setup_entry, checked under Spec *)

\* the requests that carry the CSRF token
TokenRequests == {"getDeviceList", "addOperation", "setLastSelect"}

\* the steps of async_setup_entry follow one another in the order of the code
SetupInOrder ==
    /\ pc = "setup" => pc' \in {"setup", "fetch_csrf"}
    /\ pc = "fetch_csrf" =>
        /\ pc' \in {"fetch_csrf", "get_devices", "setup_failed"}
        /\ pc' = "get_devices" => csrf' /= None
    /\ pc = "get_devices" => pc' \in {"get_devices", "cycle", "setup_failed"}
    /\ (pc = "cycle" /\ ~registered) => pc' \in {"cycle", "idle", "setup_failed"}
    /\ registered' => (registered \/ (pc = "cycle" /\ raised = "none"))

\* C25: async_setup_entry runs fetch_csrf, get_devices and the first cycle in
\* this order, no device-list or location request is issued before a token is
\* stored, and a setup that met an authentication failure ends with that
\* signal and never registers the entry
C25_SetupOrder ==
    /\ [][SetupInOrder]_vars
    /\ []((\E k \in 1..Len(log) : log[k].url \in TokenRequests) => csrf /= None)
    /\ [](pc \in {"get_devices", "cycle", "idle"} => csrf /= None)
    /\ []((~registered /\ raised = "ConfigEntryAuthFailed") => pc = "setup_failed")
    /\ [](pc = "setup_failed" => (~registered /\ raised /= "none"))
    /\ [][pc = "setup_failed" => (pc' = "setup_failed" /\ ~registered')]_vars

\* the first cycle of a setup met an authentication failure at its second device
C25_Witness ==
    /\ pc = "setup_failed"
    /\ raised = "ConfigEntryAuthFailed"
    /\ csrf /= None
    /\ Len(devices) = 2
    /\ idx = 2
    /\ ~registered

----------------------------------------------------------------------------
(* Claims about get_battery_level, checked under SpecBattery *)

\* the level each battery field of the model stands for: the percentage of a
\* code, the value of a numeral or a number, None for other text
LevelOfField ==
    (Str("FULL") :> 100) @@ (Str("LOW") :> 15) @@ (Str("85") :> 85) @@
    (Str("n/a") :> None) @@ (Num(50) :> 50)

\* the positions of the CHECK_CONNECTION operations that carry a battery field
BatteryPositions(ops) ==
    {i \in 1..Len(ops) :
        ops[i].oprnType = "CHECK_CONNECTION" /\ "battery" \in DOMAIN ops[i]}

Min(S) == CHOOSE x \in S : \A y \in S : x <= y

----------------------------------------------------------------------------
(* Claims about location_found, checked under SpecLoc *)

\* an operation the selection loop handles in its plain branch
HandledPlain(op) == IsPlain(op) /\ op.gpsUtcDt \in Dates

\* the list holds one operation, an unencrypted nested block with a date and
\* both coordinates
OnlyNestedWithBoth ==
    /\ Returned200
    /\ response.has_operation
    /\ Len(response.operation) = 1
    /\ IsNested(response.operation[1])
    /\ YieldsBoth(response.operation[1])

\* C27: location_found is true only if the plain branch handled an operation;
\* a list whose only operation is an unencrypted nested block with both
\* coordinates gives a used_loc with location_found = false, and the main
\* tracker reports neither latitude nor longitude
C27_LocationFoundOnlyInPlainBranch ==
    /\ (Returned200 /\ ret.kind = "dict" /\ ret.location_found) =>
          \E i \in 1..Len(response.operation) : HandledPlain(response.operation[i])
    /\ OnlyNestedWithBoth =>
          /\ ret.kind = "dict"
          /\ ret.used_loc /= NoLoc
          /\ ~ret.location_found
          /\ tracker_latitude(ret) = None
          /\ tracker_longitude(ret) = None

----------------------------------------------------------------------------
(* Claims about the steps of the config flow, checked under SpecLogin *)

\* the flow created a config entry or updated the entry under re-auth
EntryWritten == flow.pc \in {"entry", "updated"}

\* C28: an entry is created or updated only with the JSESSIONID that a
\* successful stage two returned, never with a null credential, and never
\* once the error of the flow is set
C28_EntryOnlyWithCredential ==
    /\ [](EntryWritten =>
            /\ flow.entry_data /= None
            /\ st2.pc = "returned"
            /\ flow.entry_data = st2.result
            /\ ~flow.error)
    /\ [](~EntryWritten => flow.entry_data = None)
    /\ [](flow.pc = "updated" => flow.reauth_entry)
    /\ [](flow.pc = "entry" => ~flow.reauth_entry)
    /\ [][flow.error => (flow'.error /\ ~EntryWritten')]_vars

\* a re-auth flow updated its entry with the credential of stage two
C28_Witness ==
    /\ flow.pc = "updated"
    /\ flow.entry_data = 2
    /\ st2.result = 2

\* C29: however often the two steps are entered, the flow creates at most one
\* stage-one task and at most one stage-two task, so the cookie jar is cleared
\* at most once, before any request of the flow, and at most one poll loop runs
C29_StagesLaunchedOnce ==
    /\ [](flow.tasks_one <= 1 /\ flow.tasks_two <= 1)
    /\ [](Count(llog, "signInGate") <= 1 /\ Count(llog, "signInXhr") <= 1)
    /\ [][(st1.pc = "idle" /\ st1'.pc /= "idle") =>
            (llog = <<>> /\ flow.tasks_one = 1)]_vars
    /\ [][(st2.pc = "idle" /\ st2'.pc /= "idle") =>
            (Count(llog, "signInXhr") = 0 /\ flow.tasks_two = 1)]_vars
    /\ [][flow'.tasks_one > flow.tasks_one => flow.pc = "user"]_vars
    /\ [][flow'.tasks_two > flow.tasks_two => flow.pc = "auth_stage_two"]_vars

\* both steps were entered again after their tasks were done, and each task
\* was created once
C29_Witness ==
    /\ flow.pc = "finish"
    /\ flow.task_stage_one = "done"
    /\ flow.task_stage_two = "done"
    /\ flow.tasks_one = 1
    /\ flow.tasks_two = 1
    /\ Count(llog, "signInGate") = 1
    /\ Count(llog, "signInXhr") = 1

----------------------------------------------------------------------------
(* Claims about the token of one call, checked under SpecRing *)

\* C30: the requests of one get_device_location call carry the token the call
\* read when it began: the nudge and set-last-select carry the same value,
\* also when a button press stored a new token in between
C30_OneTokenPerCall ==
    /\ []((gdl.pc /= "idle" /\ Len(log) > 0) =>
            log[Len(log)].csrf = gdl.csrf_token)
    /\ [][(gdl.pc = "nudge" /\ gdl'.pc = "set_last") =>
            /\ log[Len(log)].url = "addOperation"
            /\ log'[Len(log')].url = "setLastSelect"
            /\ log'[Len(log')].csrf = log[Len(log)].csrf]_vars
    /\ [][(gdl.pc /= "idle" /\ gdl'.pc /= "idle") =>
            gdl'.csrf_token = gdl.csrf_token]_vars

\* a button press stored a new token after the nudge was sent, and
\* set-last-select went out with the token of the nudge
C30_Witness ==
    /\ gdl.pc = "set_last"
    /\ Len(log) = 2
    /\ log[1].url = "addOperation"
    /\ log[2].url = "setLastSelect"
    /\ log[1].csrf = log[2].csrf
    /\ csrf /= log[2].csrf
    /\ Len(blog) = 2

----------------------------------------------------------------------------
(* Claims about the accumulator used_loc, checked under SpecLoc *)

\* the location that operation op alone offers: the fields of the branch that
\* handles it
LocationOf(op) ==
    IF IsPlain(op)
    THEN [latitude |-> op.latitude, longitude |-> op.longitude,
          gps_accuracy |-> calc_gps_accuracy(op.horizontalUncertainty,
                                             op.verticalUncertainty),
          gps_date |-> parse_stf_date(op.gpsUtcDt)]
    ELSE [latitude |-> op.encLocation.latitude,
          longitude |-> op.encLocation.longitude,
          gps_accuracy |-> calc_gps_accuracy(op.encLocation.horizontalUncertainty,
                                             op.encLocation.verticalUncertainty),
          gps_date |-> parse_stf_date(op.encLocation.gpsUtcDt)]

\* C31: a returned used_loc has its latitude, longitude, gps_accuracy and
\* gps_date from the one operation reported as used_op
C31_UsedLocFromUsedOp ==
    (Returned200 /\ ret.kind = "dict" /\ ret.used_loc /= NoLoc) =>
        /\ ret.used_op /= 0
        /\ ret.used_loc = LocationOf(response.operation[ret.used_op])

\* C33: in every result of the call used_op is null iff used_loc is null,
\* location_found = true needs both, and update_success = false comes with
\* location_found = false, no used_op, no used_loc and no ops
C33_ResultIsConsistent ==
    (Returned /\ ret.kind = "dict") =>
        /\ (ret.used_op = 0) <=> (ret.used_loc = NoLoc)
        /\ ret.location_found => (ret.used_op /= 0 /\ ret.used_loc /= NoLoc)
        /\ ~ret.update_success =>
            /\ ~ret.location_found
            /\ ret.used_op = 0
            /\ ret.used_loc = NoLoc
            /\ ret.ops = <<>>

\* a list of two operations none of which is usable: used_op and used_loc
\* are both null
C33_Witness ==
    /\ Returned200
    /\ ret.kind = "dict"
    /\ ret.update_success
    /\ Len(ret.ops) = 2
    /\ ret.used_op = 0
    /\ ret.used_loc = NoLoc

----------------------------------------------------------------------------
(* Claims about the answers of the poll request, checked under SpecLogin *)

\* the running poll request ends with the response r
PollEndsWith(r) == st2.pc = "poll" /\ st2'.pc /= "poll" /\ st2'.res = r

\* the loop goes on with the next iteration, or is left at its head because
\* the deadline has passed; no URL is fetched
PollingGoesOn ==
    /\ llog' = llog
    /\ st2'.result = None
    /\ IF now' < st2.end_time
       THEN st2'.pc = "sleep"
       ELSE st2'.pc = "returned"

\* stage two ends with None and fetches no further URL
EndsWithoutCredential ==
    /\ st2'.pc = "returned"
    /\ st2'.result = None
    /\ flow'.error
    /\ flow'.jsessionid = None
    /\ llog' = llog

\* C34: a poll response with a status other than 200, and a 200 response
\* whose rtnCd is neither SUCCESS nor POLLING, let polling go on until the
\* deadline; a SUCCESS without nextURL ends stage two in error with no further
\* request; none of them yields a credential
C34_UnusablePollResponses ==
    /\ [][\A r \in PollResponses :
            (PollEndsWith(r) /\ ~r.error /\ r.status /= 200) => PollingGoesOn]_vars
    /\ [][\A r \in PollResponses :
            (PollEndsWith(r) /\ ~r.error /\ r.status = 200 /\ r.is_json
                /\ r.rtnCd \notin {"SUCCESS", "POLLING"}) => PollingGoesOn]_vars
    /\ [][\A r \in PollResponses :
            (PollEndsWith(r) /\ ~r.error /\ r.status = 200 /\ r.is_json
                /\ r.rtnCd = "SUCCESS" /\ ~IsUrl(r.value)) =>
                    EndsWithoutCredential]_vars

\* a poll was answered with status 500 before the deadline and the loop
\* sleeps again before its next poll
C34_Witness ==
    /\ st2.pc = "sleep"
    /\ ~st2.res.error
    /\ st2.res.status = 500
    /\ Count(llog, "signInWithQrCodeProc") >= 1
    /\ now < st2.end_time

----------------------------------------------------------------------------
(* Two accounts on one Home Assistant instance *)

\* async_setup_entry of another account's entry stores that account's
\* JSESSIONID in the session async_get_clientsession returns, which is the
\* one session of the Home Assistant instance (__init__.py 39-42)
SetupOtherEntry ==
    /\ cookies' = OtherCredential
    /\ UNCHANGED <<integrationVars, flow, st1, st2, now, llog>>

\* an account with one SmartTag is set up and idle between two polling
\* cycles, and a config flow for another account has just been opened
InitAccounts ==
    /\ csrf \in 1..MaxToken
    /\ active_smarttags \in BOOLEAN
    /\ active_others = FALSE
    /\ devices = <<[dvceID |-> 1, deviceTypeCode |-> "TAG"]>>
    /\ pc = "idle"
    /\ idx = 2
    /\ tags = <<>>
    /\ data = <<Result(1, FALSE, FALSE, 0, NoLoc, <<>>)>>
    /\ raised = "none"
    /\ registered = TRUE
    /\ gdl = IdleCall
    /\ response = NoResponse
    /\ ret = NoOutcome
    /\ log = <<>>
    /\ btn = IdleButton
    /\ blog = <<>>
    /\ flow = NewFlow
    /\ st1 = IdleStageOne
    /\ st2 = IdleStageTwo
    /\ now = 0
    /\ cookies = OwnCredential
    /\ llog = <<>>
    /\ DefaultOptions

\* the polling cycles and ring requests of the first account, interleaved
\* with login stage one and the entry setup of the other
NextAccounts ==
    \/ CycleStart
    \/ GdlEnter
    \/ Nudge
    \/ SetLastInCycle
    \/ CycleCollect
    \/ CycleEnd
    \/ PressButton
    \/ Ring
    \/ ButtonCsrf
    \/ StepUser
    \/ StageOneStart
    \/ PreSignin
    \/ QrPage
    \/ SetupOtherEntry

SpecAccounts == InitAccounts /\ [][NextAccounts]_vars

\* a step in which the first account sends a request of a polling cycle or a
\* ring request
SendsRequest ==
    \/ Len(log') > Len(log)
    \/ Len(blog') > Len(blog)
    \/ (blog' /= blog /\ Len(blog') = 1)

\* C32: the session cookie with which the polling cycles and ring requests of
\* one account are sent is never changed by login stage one or by
\* async_setup_entry of another account: every such request is sent while
\* the cookie jar holds the first account's own JSESSIONID
C32_CredentialIsolated ==
    [][SendsRequest => cookies = OwnCredential]_vars

====
